---- MODULE Spec2Model ----
(***************************************************************************)
(* Model of the blogging platform's request pipeline: the auth middleware  *)
(* of src/middleware/security.js (generateTokens, authenticate, authorize, *)
(* optionalAuth, checkOwnership) and the blog and tag routes of            *)
(* src/unnamed/part_007 that are mounted behind it, over the Mongoose      *)
(* collections they use; and of the browser's AuthProvider                 *)
(* (src/unnamed/part_003) with its refresh-and-retry of expired tokens.    *)
(***************************************************************************)
EXTENDS Integers, Sequences, FiniteSets, TLC

(***************************************************************************)
(* Bounds                                                                  *)
(***************************************************************************)
MaxTime == 2          \* the clock runs over 0..MaxTime
MaxExp == 1           \* tokens carry an expiration instant in 1..MaxExp
MaxTags == 2          \* longest tags array of a blog body
MaxRequests == 3      \* number of API requests served in one run
MaxCalls == 2         \* number of createApiRequest calls the browser makes in one run
MaxConc == 2          \* number of like and view requests handled at the same time

(***************************************************************************)
(* Data                                                                    *)
(***************************************************************************)
UserIds == {"u1", "u2", "u3"}
None == "none"

\* role of each seeded user (userSchema.role, enum Admin|Reader)
SeedRole(u) == IF u = "u3" THEN "Admin" ELSE "Reader"

\* ObjectIds in the order the driver hands them out
BlogIdSeq == <<"b1", "b2", "b3", "b4", "b5", "b6">>
TagIdSeq == <<"t1", "t2", "t3", "t4", "t5", "t6", "t7", "t8", "t9", "t10", "t11", "t12", "t13">>
\* the ids requests address: the seeded document and the next one allocated
BlogIds == {"b1", "b2"}
TagIds == {"t1", "t2"}
BadId == "not-an-object-id"

\* a JWT: the secret it was signed with, its payload, or a malformed string
SignedTokens == [secret : {"JWT_SECRET", "JWT_REFRESH_SECRET"}, userId : UserIds, exp : 1..MaxExp]
MalformedToken == [secret |-> "garbage", userId |-> None, exp |-> 0]
Tokens == SignedTokens \cup {MalformedToken}
NoToken == [secret |-> None, userId |-> None, exp |-> 0]

\* the comment the collections are seeded with: a top-level comment
SeedComment == [id |-> "c1", blog_id |-> "b1", user_id |-> "u2", parent_id |-> None,
                status |-> "pending"]
CommentIdSeq == <<"c1", "c2", "c3", "c4", "c5", "c6">>

\* the blog the collections are seeded with
SeedBlogs == {[id |-> "b1", author_id |-> "u1", status |-> "draft", views |-> 0, likes |-> 0,
               title |-> <<"A", "b", " ", "a", "b">>, slug |-> <<"a", "b", "-", "a", "b">>]}

\* the registered accounts: nobody is logged in, so no refresh token is kept
SeedUsers ==
  [u \in UserIds |-> [exists |-> TRUE, isActive |-> TRUE, role |-> SeedRole(u),
                      password_hash |-> "bcrypt-hash", refreshToken |-> NoToken]]

\* Authorization header: absent, a non-Bearer scheme, "Bearer" with nothing
\* after it, or "Bearer <token>"
NoHeader == [scheme |-> None, token |-> NoToken]
BasicHeader == [scheme |-> "Basic", token |-> NoToken]
BearerOnly == [scheme |-> "Bearer", token |-> NoToken]
Bearer(t) == [scheme |-> "Bearer", token |-> t]
Authorizations == {NoHeader, BasicHeader, BearerOnly} \cup {Bearer(t) : t \in Tokens}
Cookies == {NoToken} \cup Tokens

NoUser == [id |-> None, role |-> None, isActive |-> FALSE]
NoResource == [id |-> None, author_id |-> None, user_id |-> None, status |-> None,
               title |-> None]
\* data is the set of blogs the body carries
NoRes == [status |-> 0, code |-> None, message |-> None, accessToken |-> NoToken, data |-> {}]

Undefined == "undefined"

\* request body / query as the handlers read it.  wellFormed abstracts the
\* express-validator rules on content, excerpt, featured_image and on the
\* text of a comment; hasTitle, hasTags and hasName tell whether title, tags
\* and tag_name are defined.
EmptyBody == [wellFormed |-> TRUE, status |-> Undefined, hasTags |-> FALSE,
              tags |-> <<>>, hasName |-> FALSE, tag_name |-> <<>>,
              hasTitle |-> FALSE, title |-> <<>>,
              blog_id |-> Undefined, parent_id |-> Undefined]

NoBlog == [id |-> None, author_id |-> None, status |-> None, views |-> 0, likes |-> 0,
           title |-> <<>>, slug |-> <<>>]

\* the local variables of a route handler: the _id of the blog it works on,
\* the tag names its loop has still to do, the _id of the tag in hand, the
\* queries of a Promise.all that have not settled, whether findByIdAndUpdate
\* found the blog, the blog document that was read, the blogs Blog.find
\* returned, the slug that is being tried and the counter of the slug loop
NoLocal == [blog |-> None, names |-> <<>>, tag |-> None, pending |-> {}, updated |-> FALSE,
            doc |-> NoBlog, docs |-> {}, slug |-> <<>>, counter |-> 1]

\* cookie is the accessToken cookie, refreshCookie the refreshToken cookie;
\* step is the await the route handler has reached
NoReq == [route |-> None, authorization |-> NoHeader, cookie |-> NoToken,
          refreshCookie |-> NoToken, id |-> None, body |-> EmptyBody, user |-> NoUser,
          resource |-> NoResource, stage |-> 0, step |-> "start", local |-> NoLocal]

\* no second request is being handled
NoRival == [req |-> NoReq, res |-> NoRes]

(***************************************************************************)
(* Routes and their middleware chains (src/unnamed/part_007)               *)
(***************************************************************************)
GetBlogs == "GET /api/blogs"
GetBlog == "GET /api/blogs/:slug"
PostBlog == "POST /api/blogs"
PutBlog == "PUT /api/blogs/:id"
DeleteBlog == "DELETE /api/blogs/:id"
PostTag == "POST /api/tags"
PutTag == "PUT /api/tags/:id"
DeleteTag == "DELETE /api/tags/:id"
PostRefresh == "POST /api/auth/refresh"
PostComment == "POST /api/comments"
DeleteComment == "DELETE /api/comments/:id"
PutCommentStatus == "PUT /api/comments/:id/status"

\* a middleware mounted on its own in front of a handler that only answers
OwnershipUnits == {"checkOwnership(Blog)", "checkOwnership(Comment)", "checkOwnership(Tag)"}
UnitRoutes == OwnershipUnits \cup {"authorize(Admin, Reader)"}
\* optionalAuth and authenticate applied, one after the other, to one request
TwinRoute == "optionalAuth, authenticate"

Chain(route) ==
  CASE route \in {GetBlogs, GetBlog} -> <<"optionalAuth", "handler">>
    [] route = PostBlog -> <<"authenticate", "authorize", "rateLimit", "handler">>
    [] route \in {PutBlog, DeleteBlog} -> <<"authenticate", "checkOwnership", "handler">>
    [] route \in {PostTag, PutTag, DeleteTag} -> <<"authenticate", "authorize", "handler">>
    [] route \in OwnershipUnits -> <<"authenticate", "checkOwnership", "handler">>
    [] route = "authorize(Admin, Reader)" -> <<"authenticate", "authorize", "handler">>
    [] route = TwinRoute -> <<"optionalAuth", "authenticate", "handler">>
    [] route = PostRefresh -> <<"handler">>
    [] route = PostComment -> <<"authenticate", "rateLimit", "handler">>
    [] route = PutCommentStatus -> <<"authenticate", "authorize", "handler">>
    [] route = DeleteComment -> <<"authenticate", "handler">>

\* the roles each route passes to authorize(...)
RequiredRoles(route) ==
  IF route = "authorize(Admin, Reader)" THEN {"Admin", "Reader"} ELSE {"Admin"}

VARIABLES
  now,        \* server clock, seconds since the epoch (Date.now()/1000)
  users,      \* User collection: id -> [exists, isActive, role, password_hash, refreshToken]
  blogs,      \* Blog collection: set of [id, author_id, status, views, likes, title, slug]
  tags,       \* Tag collection: set of [id, tag_name, usage_count]
  blogTags,   \* BlogTag collection: set of [blog_id, tag_id]
  comments,   \* Comment collection: set of [id, blog_id, user_id, parent_id, status]
  ratings,    \* Rating collection: set of [blog_id, user_id]
  alloc,      \* number of ObjectIds handed out so far, per collection
  served,     \* number of API requests taken so far
  pc,         \* "idle", "run" (a middleware of the chain is due) or "done"
  req,        \* the request object travelling down the chain
  res,        \* the response sent, NoRes while none was sent
  hist,       \* record of what happened to the request
  dbUp,       \* whether the MongoDB connection answers queries
  client,     \* the browser: AuthProvider state, localStorage, the call in flight
  inflight,   \* like and view requests being handled concurrently
  rival,      \* a second API request whose handler runs while the pipeline's does
  stray       \* queries of a rejected Promise.all that are still under way: [query, blog_id]

vars == <<now, users, blogs, tags, blogTags, comments, ratings, alloc, served, pc, req, res, hist,
          dbUp, client, inflight, rival, stray>>
db == <<users, blogs, tags, blogTags, comments, ratings, alloc>>
\* everything that lives on the server
server == <<now, users, blogs, tags, blogTags, comments, ratings, alloc, served, pc, req, res, hist,
            dbUp, inflight, rival, stray>>
store == [blogs |-> blogs, tags |-> tags, blogTags |-> blogTags,
          comments |-> comments, ratings |-> ratings]

\* nexts and sent count the next() calls and the responses of the request,
\* handlerRan tells whether the route handler was entered, pre is the store
\* as the request found it
NoHist == [nexts |-> 0, sent |-> 0, handlerRan |-> FALSE,
           pre |-> [blogs |-> {}, tags |-> {}, blogTags |-> {}, comments |-> {}, ratings |-> {}]]

\* the middleware or handler that is due, None when no request is running
Current == IF pc = "run" THEN Chain(req.route)[req.stage] ELSE None

(***************************************************************************)
(* jsonwebtoken and Mongoose lookups                                       *)
(***************************************************************************)
\* a query on a connection that is down rejects; the inner try of
\* authenticate catches the rejection of User.findById together with the
\* errors of jwt.verify, the try of checkOwnership and of every route handler
\* catches it and answers 500

\* jwt.verify that does not look at exp
JwtVerifyIgnoresExpiry(token, secret, clock) ==
  IF token.secret # secret THEN "JsonWebTokenError" ELSE "ok"

\* jwt.verify that looks at exp before the signature
JwtVerifyExpiryFirst(token, secret, clock) ==
  IF clock >= token.exp THEN "TokenExpiredError"
  ELSE IF token.secret # secret THEN "JsonWebTokenError"
  ELSE "ok"

\* jwt.verify(token, secret): malformed or wrongly signed tokens raise
\* JsonWebTokenError, a well signed token raises TokenExpiredError once the
\* clock has reached exp, otherwise the payload is returned.
JwtVerify(token, secret, clock) ==
  IF token.secret # secret THEN "JsonWebTokenError"
  ELSE IF clock >= token.exp THEN "TokenExpiredError"
  ELSE "ok"

\* lifetimes of the two tokens (JWT_EXPIRE, JWT_REFRESH_EXPIRE), in ticks of
\* the clock: the refresh token outlives the access token
JWT_EXPIRE == MaxExp
JWT_REFRESH_EXPIRE == MaxExp + 1

\* generateTokens that gives the access token the refresh token's lifetime
GenerateTokensSwapsLifetimes(userId, clock) ==
  [accessToken |-> [secret |-> "JWT_SECRET", userId |-> userId,
                    exp |-> clock + JWT_REFRESH_EXPIRE],
   refreshToken |-> [secret |-> "JWT_REFRESH_SECRET", userId |-> userId,
                     exp |-> clock + JWT_EXPIRE]]

\* generateTokens that signs both tokens with JWT_SECRET
GenerateTokensOneSecret(userId, clock) ==
  [accessToken |-> [secret |-> "JWT_SECRET", userId |-> userId, exp |-> clock + JWT_EXPIRE],
   refreshToken |-> [secret |-> "JWT_SECRET", userId |-> userId,
                     exp |-> clock + JWT_REFRESH_EXPIRE]]

\* generateTokens(userId), called when the clock shows `clock`: jwt.sign puts
\* exp = iat + expiresIn into the payload
GenerateTokens(userId, clock) ==
  [accessToken |-> [secret |-> "JWT_SECRET", userId |-> userId, exp |-> clock + JWT_EXPIRE],
   refreshToken |-> [secret |-> "JWT_REFRESH_SECRET", userId |-> userId,
                     exp |-> clock + JWT_REFRESH_EXPIRE]]

\* the User document with the given _id, as stored
UserDoc(id) ==
  [id |-> id, role |-> users[id].role, isActive |-> users[id].isActive,
   password_hash |-> users[id].password_hash, refreshToken |-> users[id].refreshToken]

\* User.findById(id) with no projection
FindUserUnselected(id) ==
  IF id \in UserIds /\ users[id].exists THEN UserDoc(id) ELSE NoUser

\* User.findById(id).select('-password_hash -refreshToken')
FindUser(id) ==
  IF id \in UserIds /\ users[id].exists
  THEN [f \in DOMAIN UserDoc(id) \ {"password_hash", "refreshToken"} |-> UserDoc(id)[f]]
  ELSE NoUser

\* token extraction shared by authenticate and optionalAuth
ExtractToken(authorization, cookie) ==
  IF authorization.scheme = "Bearer" THEN authorization.token
  ELSE IF cookie # NoToken THEN cookie
  ELSE NoToken

Json(status, code, message) ==
  [status |-> status, code |-> code, message |-> message, accessToken |-> NoToken, data |-> {}]

\* res.status(..).json(..): the response is sent and the chain stops
Respond(r) ==
  /\ res' = r
  /\ pc' = "done"
  /\ hist' = [hist EXCEPT !.sent = @ + 1]

\* next(): the following middleware of the chain becomes due
CallNext(r, h) ==
  /\ req' = [r EXCEPT !.stage = @ + 1, !.step = "start"]
  /\ hist' = [h EXCEPT !.nexts = @ + 1]
  /\ pc' = "run"
  /\ res' = res

(***************************************************************************)
(* src/middleware/security.js: authenticate                                *)
(***************************************************************************)
\* authenticate without the missing-token check
AuthenticateSkipsMissingToken ==
  /\ Current = "authenticate"
  /\ LET token == ExtractToken(req.authorization, req.cookie)
         outcome == JwtVerify(token, "JWT_SECRET", now)
         user == FindUser(token.userId)
     IN IF req.step = "start"
        THEN IF token = NoToken
             THEN CallNext(req, hist)
             ELSE IF outcome = "TokenExpiredError"
             THEN Respond(Json(401, "TOKEN_EXPIRED", "Token expired")) /\ req' = req
             ELSE IF outcome # "ok"
             THEN Respond(Json(401, None, "Invalid token")) /\ req' = req
             ELSE /\ req' = [req EXCEPT !.step = "User.findById"]
                  /\ UNCHANGED <<pc, res, hist>>
        ELSE IF ~dbUp
        THEN Respond(Json(401, None, "Invalid token")) /\ req' = req
        ELSE IF user = NoUser
        THEN Respond(Json(401, None, "Invalid token. User not found.")) /\ req' = req
        ELSE IF ~user.isActive
        THEN Respond(Json(401, None, "Account is deactivated.")) /\ req' = req
        ELSE CallNext([req EXCEPT !.user = user], hist)
  /\ UNCHANGED <<now, served, dbUp, client, rival, stray, inflight, db>>

\* authenticate whose catch block does not tell TokenExpiredError apart
AuthenticateGenericOnExpiry ==
  /\ Current = "authenticate"
  /\ LET token == ExtractToken(req.authorization, req.cookie)
         outcome == JwtVerify(token, "JWT_SECRET", now)
         user == FindUser(token.userId)
     IN IF req.step = "start"
        THEN IF token = NoToken
             THEN Respond(Json(401, None, "Access denied. No token provided.")) /\ req' = req
             ELSE IF outcome # "ok"
             THEN Respond(Json(401, None, "Invalid token")) /\ req' = req
             ELSE /\ req' = [req EXCEPT !.step = "User.findById"]
                  /\ UNCHANGED <<pc, res, hist>>
        ELSE IF ~dbUp
        THEN Respond(Json(401, None, "Invalid token")) /\ req' = req
        ELSE IF user = NoUser
        THEN Respond(Json(401, None, "Invalid token. User not found.")) /\ req' = req
        ELSE IF ~user.isActive
        THEN Respond(Json(401, None, "Account is deactivated.")) /\ req' = req
        ELSE CallNext([req EXCEPT !.user = user], hist)
  /\ UNCHANGED <<now, served, dbUp, client, rival, stray, inflight, db>>

\* authenticate without the isActive check
AuthenticateIgnoresActive ==
  /\ Current = "authenticate"
  /\ LET token == ExtractToken(req.authorization, req.cookie)
         outcome == JwtVerify(token, "JWT_SECRET", now)
         user == FindUser(token.userId)
     IN IF req.step = "start"
        THEN IF token = NoToken
             THEN Respond(Json(401, None, "Access denied. No token provided.")) /\ req' = req
             ELSE IF outcome = "TokenExpiredError"
             THEN Respond(Json(401, "TOKEN_EXPIRED", "Token expired")) /\ req' = req
             ELSE IF outcome # "ok"
             THEN Respond(Json(401, None, "Invalid token")) /\ req' = req
             ELSE /\ req' = [req EXCEPT !.step = "User.findById"]
                  /\ UNCHANGED <<pc, res, hist>>
        ELSE IF ~dbUp
        THEN Respond(Json(401, None, "Invalid token")) /\ req' = req
        ELSE IF user = NoUser
        THEN Respond(Json(401, None, "Invalid token. User not found.")) /\ req' = req
        ELSE CallNext([req EXCEPT !.user = user], hist)
  /\ UNCHANGED <<now, served, dbUp, client, rival, stray, inflight, db>>

\* jwt.verify runs when the middleware is entered (step "start"); the user
\* checks run when User.findById settles (step "User.findById"), and a
\* rejected query lands in the catch block that answers "Invalid token"
Authenticate ==
  /\ Current = "authenticate"
  /\ LET token == ExtractToken(req.authorization, req.cookie)
         outcome == JwtVerify(token, "JWT_SECRET", now)
         user == FindUser(token.userId)
     IN IF req.step = "start"
        THEN IF token = NoToken
             THEN Respond(Json(401, None, "Access denied. No token provided.")) /\ req' = req
             ELSE IF outcome = "TokenExpiredError"
             THEN Respond(Json(401, "TOKEN_EXPIRED", "Token expired")) /\ req' = req
             ELSE IF outcome # "ok"
             THEN Respond(Json(401, None, "Invalid token")) /\ req' = req
             ELSE /\ req' = [req EXCEPT !.step = "User.findById"]
                  /\ UNCHANGED <<pc, res, hist>>
        ELSE IF ~dbUp
        THEN Respond(Json(401, None, "Invalid token")) /\ req' = req
        ELSE IF user = NoUser
        THEN Respond(Json(401, None, "Invalid token. User not found.")) /\ req' = req
        ELSE IF ~user.isActive
        THEN Respond(Json(401, None, "Account is deactivated.")) /\ req' = req
        ELSE CallNext([req EXCEPT !.user = user], hist)
  /\ UNCHANGED <<now, served, dbUp, client, rival, stray, inflight, db>>

(***************************************************************************)
(* src/middleware/security.js: authorize(...roles)                         *)
(***************************************************************************)
\* authorize that only checks that somebody is logged in
AuthorizeAnyRole ==
  /\ Current = "authorize"
  /\ IF req.user = NoUser
     THEN Respond(Json(401, None, "Access denied. Not authenticated.")) /\ req' = req
     ELSE CallNext(req, hist)
  /\ UNCHANGED <<now, served, dbUp, client, rival, stray, inflight, db>>

\* authorize whose 403 branch lacks the return: the response is sent and
\* next() is called all the same
AuthorizeFallsThrough ==
  /\ Current = "authorize"
  /\ IF req.user = NoUser
     THEN Respond(Json(401, None, "Access denied. Not authenticated.")) /\ req' = req
     ELSE IF req.user.role \notin RequiredRoles(req.route)
     THEN /\ res' = Json(403, None, "Access denied. Required role")
          /\ req' = [req EXCEPT !.stage = @ + 1]
          /\ hist' = [hist EXCEPT !.sent = @ + 1, !.nexts = @ + 1]
          /\ pc' = "run"
     ELSE CallNext(req, hist)
  /\ UNCHANGED <<now, served, dbUp, client, rival, stray, inflight, db>>

Authorize ==
  /\ Current = "authorize"
  /\ IF req.user = NoUser
     THEN Respond(Json(401, None, "Access denied. Not authenticated.")) /\ req' = req
     ELSE IF req.user.role \notin RequiredRoles(req.route)
     THEN Respond(Json(403, None, "Access denied. Required role")) /\ req' = req
     ELSE CallNext(req, hist)
  /\ UNCHANGED <<now, served, dbUp, client, rival, stray, inflight, db>>

(***************************************************************************)
(* src/middleware/security.js: optionalAuth                                *)
(***************************************************************************)
\* optionalAuth that attaches every user it finds, active or not
OptionalAuthIgnoresActive ==
  /\ Current = "optionalAuth"
  /\ LET token == ExtractToken(req.authorization, req.cookie)
         outcome == JwtVerify(token, "JWT_SECRET", now)
         user == FindUser(token.userId)
     IN IF req.step = "start"
        THEN IF token # NoToken /\ outcome = "ok"
             THEN /\ req' = [req EXCEPT !.step = "User.findById"]
                  /\ UNCHANGED <<pc, res, hist>>
             ELSE CallNext(req, hist)
        ELSE IF dbUp /\ user # NoUser
        THEN CallNext([req EXCEPT !.user = user], hist)
        ELSE CallNext(req, hist)
  /\ UNCHANGED <<now, served, dbUp, client, rival, stray, inflight, db>>

\* optionalAuth that looks at the cookie before the Authorization header
OptionalAuthCookieFirst ==
  /\ Current = "optionalAuth"
  /\ LET token == IF req.cookie # NoToken THEN req.cookie
                  ELSE IF req.authorization.scheme = "Bearer" THEN req.authorization.token
                  ELSE NoToken
         outcome == JwtVerify(token, "JWT_SECRET", now)
         user == FindUser(token.userId)
     IN IF req.step = "start"
        THEN IF token # NoToken /\ outcome = "ok"
             THEN /\ req' = [req EXCEPT !.step = "User.findById"]
                  /\ UNCHANGED <<pc, res, hist>>
             ELSE CallNext(req, hist)
        ELSE IF dbUp /\ user # NoUser /\ user.isActive
        THEN CallNext([req EXCEPT !.user = user], hist)
        ELSE CallNext(req, hist)
  /\ UNCHANGED <<now, served, dbUp, client, rival, stray, inflight, db>>

\* jwt.verify runs when the middleware is entered, the user is attached when
\* User.findById settles; next() is called whatever happens
OptionalAuth ==
  /\ Current = "optionalAuth"
  /\ LET token == ExtractToken(req.authorization, req.cookie)
         outcome == JwtVerify(token, "JWT_SECRET", now)
         user == FindUser(token.userId)
     IN IF req.step = "start"
        THEN IF token # NoToken /\ outcome = "ok"
             THEN /\ req' = [req EXCEPT !.step = "User.findById"]
                  /\ UNCHANGED <<pc, res, hist>>
             ELSE CallNext(req, hist)
        ELSE IF dbUp /\ user # NoUser /\ user.isActive
        THEN CallNext([req EXCEPT !.user = user], hist)
        ELSE CallNext(req, hist)
  /\ UNCHANGED <<now, served, dbUp, client, rival, stray, inflight, db>>

(***************************************************************************)
(* src/middleware/security.js: checkOwnership(resourceModel)               *)
(***************************************************************************)
\* the model each route passes to checkOwnership
ResourceModel(route) ==
  CASE route \in {PutBlog, DeleteBlog} -> "Blog"
    [] route = "checkOwnership(Blog)" -> "Blog"
    [] route = "checkOwnership(Comment)" -> "Comment"
    [] route = "checkOwnership(Tag)" -> "Tag"
    [] OTHER -> None

\* the documents of a collection as checkOwnership reads them: a field the
\* schema does not have reads as undefined (None)
Docs(model) ==
  CASE model = "Blog" ->
         {[id |-> b.id, author_id |-> b.author_id, user_id |-> None, status |-> b.status,
            title |-> b.title] : b \in blogs}
    [] model = "Comment" ->
         {[id |-> c.id, author_id |-> None, user_id |-> c.user_id, status |-> c.status,
            title |-> None] : c \in comments}
    [] model = "Tag" ->
         {[id |-> t.id, author_id |-> None, user_id |-> None, status |-> None,
            title |-> None] : t \in tags}
    [] OTHER -> {}

\* resourceModel.findById(id): a CastError for a string that is no ObjectId,
\* else the document or null
FindById(model, id) ==
  IF id = BadId THEN [error |-> TRUE, doc |-> NoResource]
  ELSE IF \E d \in Docs(model) : d.id = id
  THEN [error |-> FALSE, doc |-> CHOOSE d \in Docs(model) : d.id = id]
  ELSE [error |-> FALSE, doc |-> NoResource]

\* checkOwnership without the author_id comparison
CheckOwnershipSkipsAuthor ==
  /\ Current = "checkOwnership"
  /\ LET found == FindById(ResourceModel(req.route), req.id)
         resource == found.doc
     IN IF req.user.role = "Admin"
        THEN CallNext(req, hist)
        ELSE IF found.error \/ ~dbUp
        THEN Respond(Json(500, None, "Server error in ownership check")) /\ req' = req
        ELSE IF resource = NoResource
        THEN Respond(Json(404, None, "Resource not found")) /\ req' = req
        ELSE IF resource.user_id # None /\ resource.user_id # req.user.id
        THEN Respond(Json(403, None, "Access denied. You can only access your own resources."))
             /\ req' = req
        ELSE CallNext([req EXCEPT !.resource = resource], hist)
  /\ UNCHANGED <<now, served, dbUp, client, rival, stray, inflight, db>>

CheckOwnership ==
  /\ Current = "checkOwnership"
  /\ LET found == FindById(ResourceModel(req.route), req.id)
         resource == found.doc
     IN IF req.user.role = "Admin"
        THEN CallNext(req, hist)
        ELSE IF found.error \/ ~dbUp
        THEN Respond(Json(500, None, "Server error in ownership check")) /\ req' = req
        ELSE IF resource = NoResource
        THEN Respond(Json(404, None, "Resource not found")) /\ req' = req
        ELSE IF resource.author_id # None /\ resource.author_id # req.user.id
        THEN Respond(Json(403, None, "Access denied. You can only access your own resources."))
             /\ req' = req
        ELSE IF resource.user_id # None /\ resource.user_id # req.user.id
        THEN Respond(Json(403, None, "Access denied. You can only access your own resources."))
             /\ req' = req
        ELSE CallNext([req EXCEPT !.resource = resource], hist)
  /\ UNCHANGED <<now, served, dbUp, client, rival, stray, inflight, db>>

(***************************************************************************)
(* express-rate-limit in front of POST /api/blogs and POST /api/comments:   *)
(* the window counter is not modelled, the limiter either lets the request *)
(* through or sends 429                                                    *)
(***************************************************************************)
RateLimit ==
  /\ Current = "rateLimit"
  /\ \/ CallNext(req, hist)
     \/ Respond(Json(429, None, IF req.route = PostComment
                                THEN "Too many comments posted. Please try again later."
                                ELSE "Too many blog posts created. Please try again later."))
        /\ req' = req
  /\ UNCHANGED <<now, served, dbUp, client, rival, stray, inflight, db>>

(***************************************************************************)
(* Strings: tag names, titles and slugs are sequences of characters        *)
(***************************************************************************)
ToLowerCase(s) ==
  [i \in DOMAIN s |-> CASE s[i] = "A" -> "a" [] s[i] = "B" -> "b" [] OTHER -> s[i]]

\* String.prototype.trim
Trim(s) ==
  LET RECURSIVE TrimStart(_)
      TrimStart(t) == IF t # <<>> /\ Head(t) = " " THEN TrimStart(Tail(t)) ELSE t
      RECURSIVE TrimEnd(_)
      TrimEnd(t) == IF t # <<>> /\ t[Len(t)] = " " THEN TrimEnd(SubSeq(t, 1, Len(t) - 1)) ELSE t
  IN TrimEnd(TrimStart(s))

\* generateSlug(title): lower case; every character but a-z, 0-9, the space
\* and the hyphen is dropped; each run of white space becomes a hyphen; runs
\* of hyphens are squeezed to one.  The closing .trim('-') is
\* String.prototype.trim, which takes no argument and finds no white space
\* left: hyphens at either end stay.
GenerateSlug(title) ==
  LET lower == ToLowerCase(title)
      kept == SelectSeq(lower, LAMBDA c : c \in {"a", "b", "0", "1", "2", " ", "-"})
      dashed == [i \in DOMAIN kept |-> IF kept[i] = " " THEN "-" ELSE kept[i]]
      RECURSIVE Squeeze(_)
      Squeeze(t) == IF Len(t) < 2 THEN t
                    ELSE IF t[1] = "-" /\ t[2] = "-" THEN Squeeze(Tail(t))
                    ELSE <<t[1]>> \o Squeeze(Tail(t))
  IN Squeeze(dashed)

\* titles: one whose slug the seeded blog has, one that is new, one that
\* differs from the first by case, white space and punctuation only, one
\* without a letter or digit, one too short
RawTitles == {<<"A", "b", " ", "a", "b">>, <<"B", "a", " ", "b", "a">>,
              <<"A", "B", " ", " ", "a", "b", "!">>, <<"!", "!", "!", "!", "!">>, <<"a", "b">>}

\* tagName.toLowerCase().trim()
NormaliseTag(s) == Trim(ToLowerCase(s))

RawTagNames == {<<"b">>, <<"B", " ">>}
RECURSIVE SeqsUpTo(_, _)
SeqsUpTo(S, n) ==
  IF n = 0 THEN {<<>>}
  ELSE LET shorter == SeqsUpTo(S, n - 1)
       IN shorter \cup {Append(q, x) : q \in shorter, x \in S}
TagLists == SeqsUpTo(RawTagNames, MaxTags)

(***************************************************************************)
(* Route handlers (src/unnamed/part_007).  A handler is an async function: *)
(* it runs up to its next await, hands control back to the event loop and  *)
(* resumes when the awaited query has settled.  req.step names the await   *)
(* that is due ("start" before the first one) and req.local holds the      *)
(* handler's local variables.  One firing of a handler is the code from    *)
(* one await to the next: the query that was due settles, against the      *)
(* collections as they are then, and the synchronous code after it runs.   *)
(* A query on a lost connection rejects and the handler's catch answers    *)
(* 500; the writes made before stay.                                       *)
(***************************************************************************)
\* what one firing does: the request as it goes on, the response sent (NoRes
\* while the handler is not over), the collections and the ids handed out
Continue(r, S, a) == [req |-> r, res |-> NoRes, store |-> S, alloc |-> a, stray |-> stray]
Send(r, response) ==
  [req |-> r, res |-> response, store |-> store, alloc |-> alloc, stray |-> stray]

\* the firing takes effect on the request of the pipeline
Take(e) ==
  /\ req' = e.req
  /\ res' = e.res
  /\ pc' = IF e.res = NoRes THEN "run" ELSE "done"
  /\ hist' = [hist EXCEPT !.handlerRan = TRUE, !.sent = IF e.res = NoRes THEN @ ELSE @ + 1]
  /\ blogs' = e.store.blogs
  /\ tags' = e.store.tags
  /\ blogTags' = e.store.blogTags
  /\ comments' = e.store.comments
  /\ ratings' = e.store.ratings
  /\ alloc' = e.alloc
  /\ stray' = e.stray
  /\ UNCHANGED <<now, served, dbUp, client, rival, inflight, users>>

\* the caller optionalAuth identified is an Admin
IsAdmin(user) == user # NoUser /\ user.role = "Admin"

\* the status filter of GET /api/blogs, applied to everybody
StatusQueryForAll(user, status) ==
  IF status # Undefined THEN {status} ELSE {"draft", "published", "archived"}

\* the statuses the query of GET /api/blogs selects: an Admin filters by the
\* status parameter if there is one, everybody else gets the published blogs
StatusQuery(user, status) ==
  IF IsAdmin(user)
  THEN IF status # Undefined THEN {status} ELSE {"draft", "published", "archived"}
  ELSE {"published"}

\* GET /api/blogs, called without page, search, tags or author parameters:
\* the first page holds every blog the query selects.  The handler only
\* reads: Blog.find and Blog.countDocuments in one Promise.all, then one
\* BlogTag.find per blog found in a second Promise.all (none when no blog was
\* found).  req.local.pending are the queries still to settle, req.local.docs
\* the blogs Blog.find returned, author_id populated: null (None) when the
\* users collection has no such document.
ListBlogs ==
  /\ Current = "handler" /\ req.route = GetBlogs
  /\ LET failure == Json(500, None, "Server error fetching blogs")
         pending == IF req.step = "start" THEN {"Blog.find", "Blog.countDocuments"}
                    ELSE req.local.pending
     IN IF req.step = "start"
           /\ req.body.status \notin {Undefined, "draft", "published", "archived"}
        THEN Take(Send(req, Json(400, None, "Validation errors")))
        ELSE \E m \in pending :
               LET left == pending \ {m}
                   docs == IF m = "Blog.find"
                           THEN {[b EXCEPT !.author_id = IF FindUser(@) = NoUser THEN None ELSE @]
                                 : b \in {d \in blogs : d.status \in StatusQuery(req.user, req.body.status)}}
                           ELSE req.local.docs
               IN IF ~dbUp THEN Take(Send(req, failure))
                  ELSE IF left # {}
                  THEN Take(Continue([req EXCEPT !.step = IF req.step = "start" THEN "Promise.all"
                                                          ELSE @,
                                                 !.local.pending = left, !.local.docs = docs],
                                     store, alloc))
                  ELSE IF req.step = "BlogTag.find" \/ docs = {}
                  THEN Take(Send([req EXCEPT !.local.pending = {}, !.local.docs = docs],
                                 [Json(200, None, "ok") EXCEPT !.data = docs]))
                  ELSE Take(Continue([req EXCEPT !.step = "BlogTag.find",
                                                 !.local.pending = {b.id : b \in docs},
                                                 !.local.docs = docs],
                                     store, alloc))

\* GET /api/blogs/:slug: the blog is looked up by its slug, among the
\* published ones unless the caller is an Admin, author_id populated (null
\* when the author's document is gone); its tags, the number of its
\* comments and its ratings are read one after the other; a published blog
\* then counts the view, and the copy sent back counts it too
ShowBlog ==
  /\ Current = "handler" /\ req.route = GetBlog
  /\ LET failure == Json(500, None, "Server error fetching blog")
         found == {b \in blogs : b.slug = req.id /\ (IsAdmin(req.user) \/ b.status = "published")}
         blog == req.local.doc
     IN IF ~dbUp THEN Take(Send(req, failure))
        ELSE CASE req.step = "start" ->
                    IF found = {} THEN Take(Send(req, Json(404, None, "Blog not found")))
                    ELSE Take(Continue([req EXCEPT
                                          !.step = "BlogTag.find",
                                          !.local.doc =
                                             [(CHOOSE b \in found : TRUE) EXCEPT
                                                !.author_id = IF FindUser(@) = NoUser THEN None ELSE @]],
                                       store, alloc))
               [] req.step = "BlogTag.find" ->
                    Take(Continue([req EXCEPT !.step = "Comment.countDocuments"], store, alloc))
               [] req.step = "Comment.countDocuments" ->
                    Take(Continue([req EXCEPT !.step = "Rating.aggregate"], store, alloc))
               [] req.step = "Rating.aggregate" ->
                    IF blog.status = "published"
                    THEN Take(Continue([req EXCEPT !.step = "Blog.findByIdAndUpdate"], store, alloc))
                    ELSE Take(Send(req, [Json(200, None, "ok") EXCEPT !.data = {blog}]))
               [] req.step = "Blog.findByIdAndUpdate" ->
                    LET seen == [blog EXCEPT !.views = @ + 1]
                    IN Take([Send([req EXCEPT !.local.doc = seen],
                                  [Json(200, None, "ok") EXCEPT !.data = {seen}])
                               EXCEPT !.store.blogs = {IF b.id = seen.id
                                                       THEN [b EXCEPT !.views = @ + 1] ELSE b
                                                       : b \in blogs}])

\* the tag loop shared by POST /api/blogs and PUT /api/blogs/:id:
\* for (const tagName of tags) { Tag.findOne; tag.save() of a new tag or
\* $inc of the usage_count of the one found; blogTag.save() }.  The names
\* still to do are r.local.names, the tag in hand is r.local.tag.  tag.save()
\* rejects on an empty tag_name and on the unique index of tag_name,
\* blogTag.save() on the unique index of (blog_id, tag_id).
TagLoopStep(r, failure, after) ==
  LET name == NormaliseTag(Head(r.local.names))
      rest == Tail(r.local.names)
      found == {t \in tags : t.tag_name = name}
      link == [blog_id |-> r.local.blog, tag_id |-> r.local.tag]
  IN CASE r.step = "Tag.findOne" ->
            IF ~dbUp THEN Send(r, failure)
            ELSE Continue([r EXCEPT !.step = "tag.save",
                                    !.local.tag = IF found = {} THEN None
                                                  ELSE (CHOOSE t \in found : TRUE).id],
                          store, alloc)
       [] r.step = "tag.save" ->
            IF r.local.tag = None
            THEN IF name = <<>> \/ ~dbUp \/ found # {}
                 THEN Send(r, failure)
                 ELSE LET id == TagIdSeq[alloc.tags + 1]
                      IN Continue([r EXCEPT !.step = "blogTag.save", !.local.tag = id],
                                  [store EXCEPT !.tags = @ \cup {[id |-> id, tag_name |-> name,
                                                                 usage_count |-> 1]}],
                                  [alloc EXCEPT !.tags = @ + 1])
            ELSE IF ~dbUp THEN Send(r, failure)
            ELSE Continue([r EXCEPT !.step = "blogTag.save"],
                          [store EXCEPT !.tags = {IF t.id = r.local.tag
                                                  THEN [t EXCEPT !.usage_count = @ + 1] ELSE t
                                                  : t \in tags}],
                          alloc)
       [] r.step = "blogTag.save" ->
            IF ~dbUp \/ link \in blogTags THEN Send(r, failure)
            ELSE Continue([r EXCEPT !.step = IF rest = <<>> THEN after ELSE "Tag.findOne",
                                    !.local.names = rest, !.local.tag = None],
                          [store EXCEPT !.blogTags = @ \cup {link}], alloc)

\* POST /api/blogs.  The slug is generated from the title; while a blog has
\* it, Blog.findOne is awaited once more for the slug with the next counter
\* appended.  blog.save() rejects before anything is written when the slug is
\* empty (the path is required), and on the unique index of slug when the
\* slug was taken after the last Blog.findOne.
CreateBlogStep(r) ==
  LET failure == Json(500, None, "Server error creating blog")
      title == Trim(r.body.title)
      originalSlug == GenerateSlug(title)
      taken(slug) == \E b \in blogs : b.slug = slug
      digits == <<"1", "2", "3", "4", "5", "6", "7", "8", "9">>
  IN CASE r.step = "start" ->
            IF ~r.body.wellFormed \/ ~r.body.hasTitle \/ Len(title) < 5
               \/ r.body.status \notin {"draft", "published"}
            THEN Send(r, Json(400, None, "Validation errors"))
            ELSE IF ~dbUp THEN Send(r, failure)
            ELSE IF taken(originalSlug)
            THEN Continue([r EXCEPT !.step = "Blog.findOne",
                                    !.local.slug = originalSlug \o <<"-", digits[1]>>,
                                    !.local.counter = 2], store, alloc)
            ELSE IF originalSlug = <<>> THEN Send(r, failure)
            ELSE Continue([r EXCEPT !.step = "blog.save", !.local.slug = originalSlug],
                          store, alloc)
       [] r.step = "Blog.findOne" ->
            IF ~dbUp THEN Send(r, failure)
            ELSE IF taken(r.local.slug)
            THEN Continue([r EXCEPT !.local.slug = originalSlug \o <<"-", digits[r.local.counter]>>,
                                    !.local.counter = @ + 1], store, alloc)
            ELSE Continue([r EXCEPT !.step = "blog.save"], store, alloc)
       [] r.step = "blog.save" ->
            IF ~dbUp \/ taken(r.local.slug) THEN Send(r, failure)
            ELSE LET id == BlogIdSeq[alloc.blogs + 1]
                     blog == [id |-> id, author_id |-> r.user.id, status |-> r.body.status,
                              views |-> 0, likes |-> 0, title |-> title, slug |-> r.local.slug]
                     names == IF r.body.hasTags THEN r.body.tags ELSE <<>>
                 IN Continue([r EXCEPT !.step = IF names # <<>> THEN "Tag.findOne"
                                                ELSE "Blog.findById",
                                         !.local.blog = id, !.local.names = names],
                             [store EXCEPT !.blogs = @ \cup {blog}],
                             [alloc EXCEPT !.blogs = @ + 1])
       [] r.step \in {"Tag.findOne", "tag.save", "blogTag.save"} -> TagLoopStep(r, failure, "Blog.findById")
       [] r.step = "Blog.findById" ->
            IF ~dbUp THEN Send(r, failure)
            ELSE Continue([r EXCEPT !.step = "BlogTag.find"], store, alloc)
       [] r.step = "BlogTag.find" ->
            IF ~dbUp THEN Send(r, failure)
            ELSE Send(r, Json(201, None, "Blog created successfully"))

CreateBlog ==
  /\ Current = "handler" /\ req.route = PostBlog
  /\ Take(CreateBlogStep(req))

\* PUT /api/blogs/:id.  checkOwnership lets an Admin through without setting
\* req.resource, and blog.title or blog._id then throws.  A title other than
\* the one checkOwnership read regenerates the slug, with the same loop as
\* POST over the other blogs.  Blog.findByIdAndUpdate runs the validators (an
\* empty slug is rejected before the query is sent), rejects on the unique
\* index of slug, and resolves to null when the blog is gone;
\* updatedBlog.toObject() then throws.
UpdateBlogStep(r) ==
  LET failure == Json(500, None, "Server error updating blog")
      blog == r.resource
      title == Trim(r.body.title)
      originalSlug == GenerateSlug(title)
      taken(slug) == \E b \in blogs : b.slug = slug /\ b.id # blog.id
      digits == <<"1", "2", "3", "4", "5", "6", "7", "8", "9">>
      \* the await of Blog.findByIdAndUpdate settles; newSlug says whether
      \* updateData has a slug
      update(newSlug) ==
        IF ~dbUp \/ (newSlug /\ taken(r.local.slug)) THEN Send(r, failure)
        ELSE Continue([r EXCEPT !.step = IF r.body.hasTags THEN "BlogTag.deleteMany"
                                         ELSE "BlogTag.find",
                                !.local.blog = blog.id,
                                !.local.updated = \E b \in blogs : b.id = blog.id],
                      [store EXCEPT !.blogs =
                         {IF b.id = blog.id
                          THEN [b EXCEPT !.status = IF r.body.status # Undefined
                                                    THEN r.body.status ELSE @,
                                         !.title = IF r.body.hasTitle THEN title ELSE @,
                                         !.slug = IF newSlug THEN r.local.slug ELSE @]
                          ELSE b : b \in blogs}],
                      alloc)
  IN CASE r.step = "start" ->
            IF ~r.body.wellFormed \/ (r.body.hasTitle /\ Len(title) < 5)
               \/ r.body.status \notin {Undefined, "draft", "published", "archived"}
            THEN Send(r, Json(400, None, "Validation errors"))
            ELSE IF blog = NoResource THEN Send(r, failure)
            ELSE IF ~(r.body.hasTitle /\ title # blog.title) THEN update(FALSE)
            ELSE IF ~dbUp THEN Send(r, failure)
            ELSE IF taken(originalSlug)
            THEN Continue([r EXCEPT !.step = "Blog.findOne",
                                    !.local.slug = originalSlug \o <<"-", digits[1]>>,
                                    !.local.counter = 2], store, alloc)
            ELSE IF originalSlug = <<>> THEN Send(r, failure)
            ELSE Continue([r EXCEPT !.step = "Blog.findByIdAndUpdate",
                                    !.local.slug = originalSlug], store, alloc)
       [] r.step = "Blog.findOne" ->
            IF ~dbUp THEN Send(r, failure)
            ELSE IF taken(r.local.slug)
            THEN Continue([r EXCEPT !.local.slug = originalSlug \o <<"-", digits[r.local.counter]>>,
                                    !.local.counter = @ + 1], store, alloc)
            ELSE Continue([r EXCEPT !.step = "Blog.findByIdAndUpdate"], store, alloc)
       [] r.step = "Blog.findByIdAndUpdate" -> update(TRUE)
       [] r.step = "BlogTag.deleteMany" ->
            IF ~dbUp THEN Send(r, failure)
            ELSE Continue([r EXCEPT !.step = IF r.body.tags # <<>> THEN "Tag.findOne"
                                             ELSE "BlogTag.find",
                                    !.local.names = r.body.tags],
                          [store EXCEPT !.blogTags = {bt \in blogTags : bt.blog_id # blog.id}],
                          alloc)
       [] r.step \in {"Tag.findOne", "tag.save", "blogTag.save"} -> TagLoopStep(r, failure, "BlogTag.find")
       [] r.step = "BlogTag.find" ->
            IF ~dbUp \/ ~r.local.updated THEN Send(r, failure)
            ELSE Send(r, Json(200, None, "Blog updated successfully"))

UpdateBlog ==
  /\ Current = "handler" /\ req.route = PutBlog
  /\ Take(UpdateBlogStep(req))

\* DELETE /api/blogs/:id: Promise.all starts the three deleteMany together
\* and they settle in any order; r.local.pending are those still to settle.
\* The first one to reject answers 500 and the others are not cancelled:
\* they stay under way (stray) and settle later.
RemoveBlogSteps(r) ==
  LET failure == Json(500, None, "Server error deleting blog")
      blog == r.resource
      pending == IF r.step = "start" THEN {"BlogTag", "Comment", "Rating"} ELSE r.local.pending
  IN CASE r.step \in {"start", "Promise.all"} ->
            IF blog = NoResource THEN {Send(r, failure)}
            ELSE IF ~dbUp
            THEN {[Send(r, failure) EXCEPT
                     !.stray = @ \cup {[query |-> q, blog_id |-> blog.id] : q \in pending \ {m}}]
                  : m \in pending}
            ELSE {Continue([r EXCEPT !.step = IF pending = {m} THEN "Blog.findByIdAndDelete"
                                              ELSE "Promise.all",
                                     !.local.pending = pending \ {m}],
                           [store EXCEPT
                              !.blogTags = IF m = "BlogTag"
                                           THEN {bt \in @ : bt.blog_id # blog.id} ELSE @,
                              !.comments = IF m = "Comment"
                                           THEN {c \in @ : c.blog_id # blog.id} ELSE @,
                              !.ratings = IF m = "Rating"
                                          THEN {x \in @ : x.blog_id # blog.id} ELSE @],
                           alloc) : m \in pending}
       [] r.step = "Blog.findByIdAndDelete" ->
            IF ~dbUp THEN {Send(r, failure)}
            ELSE {[Send(r, Json(200, None, "Blog deleted successfully")) EXCEPT
                     !.store.blogs = {b \in blogs : b.id # blog.id}]}

RemoveBlog ==
  /\ Current = "handler" /\ req.route = DeleteBlog
  /\ \E e \in RemoveBlogSteps(req) : Take(e)

\* a deleteMany that a rejected Promise.all of DELETE /api/blogs/:id left
\* under way settles: it deletes if the connection is there, else it rejects
\* unheard
StraySettles ==
  /\ \E q \in stray :
       /\ stray' = stray \ {q}
       /\ blogTags' = IF dbUp /\ q.query = "BlogTag"
                      THEN {bt \in blogTags : bt.blog_id # q.blog_id} ELSE blogTags
       /\ comments' = IF dbUp /\ q.query = "Comment"
                      THEN {c \in comments : c.blog_id # q.blog_id} ELSE comments
       /\ ratings' = IF dbUp /\ q.query = "Rating"
                     THEN {x \in ratings : x.blog_id # q.blog_id} ELSE ratings
  /\ UNCHANGED <<now, users, blogs, tags, alloc, served, pc, req, res, hist, dbUp, client,
                 inflight, rival>>

\* POST /api/tags: tag.save() rejects on the unique index of tag_name when
\* the name was taken after Tag.findOne
CreateTagStep(r) ==
  LET failure == Json(500, None, "Server error creating tag")
      name == NormaliseTag(r.body.tag_name)
      taken == \E t \in tags : t.tag_name = name
  IN CASE r.step = "start" ->
            IF ~r.body.hasName \/ Trim(r.body.tag_name) = <<>>
            THEN Send(r, Json(400, None, "Validation errors"))
            ELSE IF ~dbUp THEN Send(r, failure)
            ELSE IF taken THEN Send(r, Json(400, None, "Tag already exists"))
            ELSE Continue([r EXCEPT !.step = "tag.save"], store, alloc)
       [] r.step = "tag.save" ->
            IF ~dbUp \/ taken THEN Send(r, failure)
            ELSE [Send(r, Json(201, None, "Tag created successfully")) EXCEPT
                    !.store.tags = @ \cup {[id |-> TagIdSeq[alloc.tags + 1], tag_name |-> name,
                                            usage_count |-> 0]},
                    !.alloc.tags = @ + 1]

CreateTag ==
  /\ Current = "handler" /\ req.route = PostTag
  /\ Take(CreateTagStep(req))

\* PUT /api/tags/:id: Tag.findByIdAndUpdate rejects on the unique index of
\* tag_name when the name was taken after the check, and resolves to null,
\* which is answered 200 all the same, when the tag is gone
UpdateTagStep(r) ==
  LET failure == Json(500, None, "Server error updating tag")
      name == NormaliseTag(r.body.tag_name)
      found == {t \in tags : t.id = r.id}
      taken == \E t \in tags : t.tag_name = name /\ t.id # r.id
  IN CASE r.step = "start" ->
            IF r.id = BadId \/ (r.body.hasName /\ Trim(r.body.tag_name) = <<>>)
            THEN Send(r, Json(400, None, "Validation errors"))
            ELSE IF ~dbUp THEN Send(r, failure)
            ELSE IF found = {} THEN Send(r, Json(404, None, "Tag not found"))
            ELSE Continue([r EXCEPT !.step =
                             IF r.body.hasName /\ name # (CHOOSE t \in found : TRUE).tag_name
                             THEN "Tag.findOne" ELSE "Tag.findByIdAndUpdate"],
                          store, alloc)
       [] r.step = "Tag.findOne" ->
            IF ~dbUp THEN Send(r, failure)
            ELSE IF taken THEN Send(r, Json(400, None, "Tag name already exists"))
            ELSE Continue([r EXCEPT !.step = "Tag.findByIdAndUpdate"], store, alloc)
       [] r.step = "Tag.findByIdAndUpdate" ->
            IF ~dbUp \/ (r.body.hasName /\ found # {} /\ taken) THEN Send(r, failure)
            ELSE [Send(r, Json(200, None, "Tag updated successfully")) EXCEPT
                    !.store.tags =
                       IF r.body.hasName
                       THEN {IF t.id = r.id THEN [t EXCEPT !.tag_name = name] ELSE t : t \in tags}
                       ELSE tags]

UpdateTag ==
  /\ Current = "handler" /\ req.route = PutTag
  /\ Take(UpdateTagStep(req))

\* DELETE /api/tags/:id
RemoveTagStep(r) ==
  LET failure == Json(500, None, "Server error deleting tag")
  IN CASE r.step = "start" ->
            IF r.id = BadId THEN Send(r, Json(400, None, "Validation errors"))
            ELSE IF ~dbUp THEN Send(r, failure)
            ELSE IF ~\E t \in tags : t.id = r.id THEN Send(r, Json(404, None, "Tag not found"))
            ELSE Continue([r EXCEPT !.step = "BlogTag.countDocuments"], store, alloc)
       [] r.step = "BlogTag.countDocuments" ->
            IF ~dbUp THEN Send(r, failure)
            ELSE IF \E bt \in blogTags : bt.tag_id = r.id
            THEN Send(r, Json(400, None, "Cannot delete tag. It is being used"))
            ELSE Continue([r EXCEPT !.step = "Tag.findByIdAndDelete"], store, alloc)
       [] r.step = "Tag.findByIdAndDelete" ->
            IF ~dbUp THEN Send(r, failure)
            ELSE [Send(r, Json(200, None, "Tag deleted successfully")) EXCEPT
                    !.store.tags = {t \in tags : t.id # r.id}]

RemoveTag ==
  /\ Current = "handler" /\ req.route = DeleteTag
  /\ Take(RemoveTagStep(req))

\* POST /api/comments
CreateComment ==
  /\ Current = "handler" /\ req.route = PostComment
  /\ Take(LET failure == Json(500, None, "Server error creating comment")
              blog_id == req.body.blog_id
              parent_id == req.body.parent_id
              parent == {c \in comments : c.id = parent_id}
          IN CASE req.step = "start" ->
                    IF ~req.body.wellFormed \/ blog_id \in {Undefined, BadId} \/ parent_id = BadId
                    THEN Send(req, Json(400, None, "Validation errors"))
                    ELSE IF ~dbUp THEN Send(req, failure)
                    ELSE IF ~\E b \in blogs : b.id = blog_id
                    THEN Send(req, Json(404, None, "Blog not found"))
                    ELSE Continue([req EXCEPT !.step = IF parent_id # Undefined THEN "Comment.findById"
                                                     ELSE "comment.save"], store, alloc)
               [] req.step = "Comment.findById" ->
                    IF ~dbUp THEN Send(req, failure)
                    ELSE IF ~\E c \in parent : c.blog_id = blog_id
                    THEN Send(req, Json(404, None, "Parent comment not found"))
                    ELSE Continue([req EXCEPT !.step = "comment.save"], store, alloc)
               [] req.step = "comment.save" ->
                    IF ~dbUp THEN Send(req, failure)
                    ELSE Continue([req EXCEPT !.step = "populate"],
                                  [store EXCEPT !.comments = @ \cup
                                     {[id |-> CommentIdSeq[alloc.comments + 1], blog_id |-> blog_id,
                                       user_id |-> req.user.id,
                                       parent_id |-> IF parent_id # Undefined THEN parent_id ELSE None,
                                       status |-> "pending"]}],
                                  [alloc EXCEPT !.comments = @ + 1])
               [] req.step = "populate" ->
                    IF ~dbUp THEN Send(req, failure)
                    ELSE Send(req, Json(201, None, "Comment submitted for review")))

\* DELETE /api/comments/:id: Comment.deleteMany({$or: [{_id: id}, {parent_id: id}]})
RemoveComment ==
  /\ Current = "handler" /\ req.route = DeleteComment
  /\ Take(LET failure == Json(500, None, "Server error deleting comment")
              found == {c \in comments : c.id = req.id}
          IN CASE req.step = "start" ->
                    IF req.id = BadId THEN Send(req, Json(400, None, "Validation errors"))
                    ELSE IF ~dbUp THEN Send(req, failure)
                    ELSE IF found = {} THEN Send(req, Json(404, None, "Comment not found"))
                    ELSE IF req.user.role # "Admin" /\ \E c \in found : c.user_id # req.user.id
                    THEN Send(req, Json(403, None, "You can only delete your own comments"))
                    ELSE Continue([req EXCEPT !.step = "Comment.deleteMany"], store, alloc)
               [] req.step = "Comment.deleteMany" ->
                    IF ~dbUp THEN Send(req, failure)
                    ELSE [Send(req, Json(200, None, "Comment deleted successfully")) EXCEPT
                            !.store.comments = {c \in comments : c.id # req.id /\ c.parent_id # req.id}])

\* PUT /api/comments/:id/status: an Admin approves or rejects a comment,
\* Comment.findByIdAndUpdate(id, {status})
UpdateCommentStatus ==
  /\ Current = "handler" /\ req.route = PutCommentStatus
  /\ Take(IF req.id = BadId \/ req.body.status \notin {"approved", "rejected"}
          THEN Send(req, Json(400, None, "Validation errors"))
          ELSE IF ~dbUp THEN Send(req, Json(500, None, "Server error updating comment status"))
          ELSE IF ~\E c \in comments : c.id = req.id
          THEN Send(req, Json(404, None, "Comment not found"))
          ELSE [Send(req, Json(200, None, IF req.body.status = "approved"
                                          THEN "Comment approved successfully"
                                          ELSE "Comment rejected successfully")) EXCEPT
                  !.store.comments = {IF c.id = req.id THEN [c EXCEPT !.status = req.body.status]
                                      ELSE c : c \in comments}])

(***************************************************************************)
(* Requests                                                                *)
(***************************************************************************)
\* the access token generateTokens(userId) signs
AccessToken(u) == GenerateTokens(u, 0).accessToken

BlogBodies(statuses) ==
  {[EmptyBody EXCEPT !.wellFormed = FALSE]}
  \cup {[EmptyBody EXCEPT !.status = s] : s \in statuses}
  \cup {[EmptyBody EXCEPT !.status = "published", !.hasTags = TRUE, !.tags = l] : l \in TagLists}
TagBodies == {EmptyBody} \cup {[EmptyBody EXCEPT !.hasName = TRUE, !.tag_name = n]
                               : n \in RawTagNames \cup {<<" ">>}}

\* the (id, body) pairs tried on each route
Payloads(route) ==
  CASE route = GetBlogs ->
         {<<None, [EmptyBody EXCEPT !.status = s]>> : s \in {Undefined, "draft", "bogus"}}
    [] route = PostBlog ->
         {<<None, [b EXCEPT !.hasTitle = TRUE, !.title = <<"B", "a", " ", "b", "a">>]>>
          : b \in BlogBodies({"draft", "published", Undefined})}
         \cup {<<None, [EmptyBody EXCEPT !.status = "draft", !.hasTitle = TRUE, !.title = t]>>
               : t \in RawTitles \ {<<"A", "b", " ", "a", "b">>, <<"B", "a", " ", "b", "a">>}}
         \cup {<<None, [EmptyBody EXCEPT !.status = "draft"]>>}
    [] route = PutBlog ->
         {<<i, b>> : i \in BlogIds \cup {BadId},
                     b \in BlogBodies({Undefined, "published", "bogus"})
                           \cup {[EmptyBody EXCEPT !.hasTitle = TRUE, !.title = t]
                                 : t \in RawTitles \ {<<"A", "b", " ", "a", "b">>,
                                                       <<"B", "a", " ", "b", "a">>}}}
    [] route = DeleteBlog -> {<<i, EmptyBody>> : i \in BlogIds \cup {BadId}}
    [] route = PostTag -> {<<None, b>> : b \in TagBodies}
    [] route = PutTag -> {<<i, b>> : i \in TagIds \cup {BadId}, b \in TagBodies}
    [] route = DeleteTag -> {<<i, EmptyBody>> : i \in TagIds \cup {BadId}}
    [] OTHER -> {<<None, EmptyBody>>}

\* Express hands a new request to the first middleware of the route's chain
Arrive(route, authorization, cookie, id, body) ==
  /\ pc = "idle"
  /\ req' = [route |-> route, authorization |-> authorization, cookie |-> cookie,
             refreshCookie |-> NoToken, id |-> id, body |-> body, user |-> NoUser,
             resource |-> NoResource, stage |-> 1, step |-> "start", local |-> NoLocal]
  /\ res' = NoRes
  /\ hist' = [NoHist EXCEPT !.pre = store]
  /\ pc' = "run"
  /\ UNCHANGED <<now, dbUp, client, rival, stray, inflight, db>>

\* the response has gone out; the server takes the next request
Finish ==
  /\ pc = "done"
  /\ pc' = "idle"
  /\ req' = NoReq
  /\ res' = NoRes
  /\ hist' = NoHist
  /\ UNCHANGED <<now, served, dbUp, client, rival, stray, inflight, db>>

\* requests of callers that hold a fresh access token, or none
ArriveApi ==
  /\ served < MaxRequests
  /\ served' = served + 1
  /\ \E route \in {GetBlogs, PostBlog, PutBlog, DeleteBlog, PostTag, PutTag, DeleteTag} :
      \E authorization \in {NoHeader} \cup {Bearer(AccessToken(u)) : u \in UserIds} :
        \E p \in Payloads(route) :
          Arrive(route, authorization, NoToken, p[1], p[2])

\* requests with every combination of Authorization header and cookie
ArriveAuth ==
  /\ served' = served
  /\ \E route \in {GetBlogs, PutTag} :
       \E authorization \in Authorizations, cookie \in Cookies :
         Arrive(route, authorization, cookie, IF route = PutTag THEN "t1" ELSE None, EmptyBody)

(***************************************************************************)
(* Environment: the clock and the User collection                          *)
(***************************************************************************)
Tick ==
  /\ now < MaxTime
  /\ now' = now + 1
  /\ UNCHANGED <<served, dbUp, client, rival, stray, inflight, db, pc, req, res, hist>>

\* the connection to MongoDB is lost: queries reject until it is back
DbGoesDown ==
  /\ dbUp
  /\ dbUp' = FALSE
  /\ UNCHANGED <<now, served, client, rival, stray, inflight, db, pc, req, res, hist>>

DbComesBack ==
  /\ ~dbUp
  /\ dbUp' = TRUE
  /\ UNCHANGED <<now, served, client, rival, stray, inflight, db, pc, req, res, hist>>

\* an account is soft-disabled (userSchema.isActive)
DeactivateUser(u) ==
  /\ users[u].exists /\ users[u].isActive
  /\ users' = [users EXCEPT ![u].isActive = FALSE]
  /\ UNCHANGED <<now, served, dbUp, client, rival, stray, inflight, blogs, tags, blogTags, comments, ratings, alloc, pc, req, res, hist>>

\* an account is removed from the collection
DeleteUser(u) ==
  /\ users[u].exists
  /\ users' = [users EXCEPT ![u].exists = FALSE]
  /\ UNCHANGED <<now, served, dbUp, client, rival, stray, inflight, blogs, tags, blogTags, comments, ratings, alloc, pc, req, res, hist>>

(***************************************************************************)
(* Likes and views (src/unnamed/part_007): POST /api/blogs/:id/like and    *)
(* GET /api/blogs/:slug, several requests in flight at once.  Each handler *)
(* runs from one await to the next.  A request enters with the identity    *)
(* authenticate or optionalAuth attached; a like names the blog by its id, *)
(* a view by its slug.                                                     *)
(***************************************************************************)
\* a like or view request enters its handler
Enter(kind) ==
  /\ Len(inflight) < MaxConc
  /\ \E id \in (IF kind = "like" THEN BlogIds \cup {"b9", BadId}
                ELSE {b.slug : b \in blogs} \cup {<<"b">>}) :
       \E user \in (IF kind = "like" THEN {} ELSE {NoUser})
                   \cup {[id |-> u, role |-> SeedRole(u), isActive |-> TRUE] : u \in {"u2", "u3"}} :
         inflight' = Append(inflight, [kind |-> kind, id |-> id, user |-> user, pc |-> "find",
                                       blog |-> NoBlog, status |-> 0])
  /\ UNCHANGED <<now, served, dbUp, client, rival, stray, db, pc, req, res, hist>>

\* POST /:id/like up to `await Blog.findById(blogId)`
LikeFind(i) ==
  /\ i \in DOMAIN inflight
  /\ inflight[i].kind = "like" /\ inflight[i].pc = "find"
  /\ LET found == {b \in blogs : b.id = inflight[i].id}
     IN inflight' =
          IF ~dbUp \/ inflight[i].id = BadId
          THEN [inflight EXCEPT ![i].pc = "done", ![i].status = 500]
          ELSE IF found = {}
          THEN [inflight EXCEPT ![i].pc = "done", ![i].status = 404]
          ELSE [inflight EXCEPT ![i].pc = "inc", ![i].blog = CHOOSE b \in found : TRUE]
  /\ UNCHANGED <<now, served, dbUp, client, rival, stray, db, pc, req, res, hist>>

\* a like that writes back the count it read plus one
LikeIncReadModifyWrite(i) ==
  /\ i \in DOMAIN inflight
  /\ inflight[i].kind = "like" /\ inflight[i].pc = "inc"
  /\ blogs' = {IF b.id = inflight[i].id THEN [b EXCEPT !.likes = inflight[i].blog.likes + 1] ELSE b
               : b \in blogs}
  /\ inflight' = [inflight EXCEPT ![i].pc = "done", ![i].status = IF dbUp THEN 200 ELSE 500]
  /\ UNCHANGED <<now, served, dbUp, client, rival, stray, users, tags, blogTags, comments, ratings, alloc,
                 pc, req, res, hist>>

\* POST /:id/like from `await Blog.findByIdAndUpdate(blogId, {$inc: {likes: 1}})`
\* to res.json
LikeInc(i) ==
  /\ i \in DOMAIN inflight
  /\ inflight[i].kind = "like" /\ inflight[i].pc = "inc"
  /\ blogs' = IF dbUp
              THEN {IF b.id = inflight[i].id THEN [b EXCEPT !.likes = @ + 1] ELSE b : b \in blogs}
              ELSE blogs
  /\ inflight' = [inflight EXCEPT ![i].pc = "done", ![i].status = IF dbUp THEN 200 ELSE 500]
  /\ UNCHANGED <<now, served, dbUp, client, rival, stray, users, tags, blogTags, comments, ratings, alloc,
                 pc, req, res, hist>>

\* GET /:slug up to `await Blog.findOne(query)`: the blog is looked up by
\* slug, among the published ones unless the caller is an Admin
ViewFind(i) ==
  /\ i \in DOMAIN inflight
  /\ inflight[i].kind = "view" /\ inflight[i].pc = "find"
  /\ LET admin == inflight[i].user # NoUser /\ inflight[i].user.role = "Admin"
         found == {b \in blogs : b.slug = inflight[i].id /\ (admin \/ b.status = "published")}
     IN inflight' =
          IF ~dbUp
          THEN [inflight EXCEPT ![i].pc = "done", ![i].status = 500]
          ELSE IF found = {}
          THEN [inflight EXCEPT ![i].pc = "done", ![i].status = 404]
          ELSE [inflight EXCEPT ![i].pc = "BlogTag.find", ![i].blog = CHOOSE b \in found : TRUE]
  /\ UNCHANGED <<now, served, dbUp, client, rival, stray, db, pc, req, res, hist>>

\* GET /:slug at BlogTag.find, Comment.countDocuments and Rating.aggregate:
\* one of the three reads settles; after the last, a blog that is not
\* published is sent back as it was read
ViewRead(i) ==
  /\ i \in DOMAIN inflight
  /\ inflight[i].kind = "view"
  /\ inflight[i].pc \in {"BlogTag.find", "Comment.countDocuments", "Rating.aggregate"}
  /\ inflight' =
       IF ~dbUp THEN [inflight EXCEPT ![i].pc = "done", ![i].status = 500]
       ELSE IF inflight[i].pc = "BlogTag.find"
       THEN [inflight EXCEPT ![i].pc = "Comment.countDocuments"]
       ELSE IF inflight[i].pc = "Comment.countDocuments"
       THEN [inflight EXCEPT ![i].pc = "Rating.aggregate"]
       ELSE IF inflight[i].blog.status = "published"
       THEN [inflight EXCEPT ![i].pc = "inc"]
       ELSE [inflight EXCEPT ![i].pc = "done", ![i].status = 200]
  /\ UNCHANGED <<now, served, dbUp, client, rival, stray, db, pc, req, res, hist>>

\* GET /:slug from `await Blog.findByIdAndUpdate(blog._id, {$inc: {views: 1}})`
\* to res.json: the copy that is sent back counts the view too
ViewInc(i) ==
  /\ i \in DOMAIN inflight
  /\ inflight[i].kind = "view" /\ inflight[i].pc = "inc"
  /\ blogs' = IF dbUp
              THEN {IF b.id = inflight[i].blog.id THEN [b EXCEPT !.views = @ + 1] ELSE b : b \in blogs}
              ELSE blogs
  /\ inflight' = [inflight EXCEPT ![i].pc = "done", ![i].status = IF dbUp THEN 200 ELSE 500,
                                  ![i].blog.views = IF dbUp THEN @ + 1 ELSE @]
  /\ UNCHANGED <<now, served, dbUp, client, rival, stray, users, tags, blogTags, comments, ratings, alloc,
                 pc, req, res, hist>>

(***************************************************************************)
(* Sessions: login, logout and POST /api/auth/refresh.  The auth routes    *)
(* are mounted by src/server.js but their file is not part of the sources; *)
(* they are modelled from the specification of the refresh flow.           *)
(***************************************************************************)
\* a login succeeds: tokens are minted and the refresh token is persisted on
\* the User record
LoginUser(u) ==
  /\ users[u].exists /\ users[u].isActive
  /\ users[u].refreshToken # GenerateTokens(u, now).refreshToken
  /\ users' = [users EXCEPT ![u].refreshToken = GenerateTokens(u, now).refreshToken]
  /\ UNCHANGED <<now, served, dbUp, client, rival, stray, inflight, blogs, tags, blogTags, comments, ratings,
                 alloc, pc, req, res, hist>>

\* a logout drops the persisted refresh token
LogoutUser(u) ==
  /\ users[u].refreshToken # NoToken
  /\ users' = [users EXCEPT ![u].refreshToken = NoToken]
  /\ UNCHANGED <<now, served, dbUp, client, rival, stray, inflight, blogs, tags, blogTags, comments, ratings,
                 alloc, pc, req, res, hist>>

\* POST /api/auth/refresh: the refreshToken cookie is verified against the
\* refresh secret and compared with the persisted reference; a new access
\* token is issued, the refresh token is not rotated
RefreshAccessToken ==
  /\ Current = "handler" /\ req.route = PostRefresh
  /\ LET cookie == req.refreshCookie
         outcome == JwtVerify(cookie, "JWT_REFRESH_SECRET", now)
     IN IF cookie = NoToken
        THEN Take(Send(req, Json(401, None, "Refresh token not provided")))
        ELSE IF outcome # "ok"
        THEN Take(Send(req, Json(401, None, "Invalid refresh token")))
        ELSE IF ~users[cookie.userId].exists \/ users[cookie.userId].refreshToken # cookie
        THEN Take(Send(req, Json(401, None, "Invalid refresh token")))
        ELSE Take(Send(req, [Json(200, None, "Token refreshed")
                      EXCEPT !.accessToken = GenerateTokens(cookie.userId, now).accessToken]))

\* the tokens generateTokens has minted up to the instant t
Minted(t) ==
  UNION {{GenerateTokens(u, t0).accessToken, GenerateTokens(u, t0).refreshToken}
         : u \in UserIds, t0 \in 0..t}

\* a request that presents a minted token, as Bearer header or as cookie
ArriveMinted ==
  /\ served' = served
  /\ \E route \in {GetBlogs, PutTag}, token \in Minted(now), asHeader \in BOOLEAN :
       Arrive(route, IF asHeader THEN Bearer(token) ELSE NoHeader,
              IF asHeader THEN NoToken ELSE token,
              IF route = PutTag THEN "t1" ELSE None, EmptyBody)

\* a refresh request with a refreshToken cookie, or none
ArriveRefresh ==
  /\ pc = "idle"
  /\ \E cookie \in Minted(now) \cup {NoToken, MalformedToken} :
       req' = [NoReq EXCEPT !.route = PostRefresh, !.refreshCookie = cookie, !.stage = 1]
  /\ res' = NoRes
  /\ hist' = [NoHist EXCEPT !.pre = store]
  /\ pc' = "run"
  /\ UNCHANGED <<now, served, dbUp, client, rival, stray, inflight, db>>

(***************************************************************************)
(* The browser (src/unnamed/part_003): AuthProvider state, localStorage    *)
(* and one createApiRequest call at a time.  The server is any server: it  *)
(* may answer every fetch in every way.                                    *)
(***************************************************************************)
\* the answer to a fetch: a JSON envelope with its HTTP status, or a rejected
\* promise (network error, or a body that is no JSON)
Answer(status, code, success, accessToken) ==
  [kind |-> "json", status |-> status, code |-> code, success |-> success,
   accessToken |-> accessToken]
NetworkError == [kind |-> "network", status |-> 0, code |-> None, success |-> FALSE,
                 accessToken |-> None]
NoAnswer == [kind |-> None, status |-> 0, code |-> None, success |-> FALSE, accessToken |-> None]

\* response.ok
Ok(a) == a.kind = "json" /\ a.status \in 200..299

ApiAnswers ==
  {NetworkError, Answer(200, None, TRUE, None), Answer(200, None, FALSE, None),
   Answer(401, "TOKEN_EXPIRED", FALSE, None), Answer(401, None, FALSE, None),
   Answer(403, None, FALSE, None), Answer(500, None, FALSE, None)}
RefreshAnswers ==
  {NetworkError, Answer(200, None, FALSE, None), Answer(401, None, FALSE, None)}
  \cup {Answer(st, None, TRUE, t) : st \in {200, 500}, t \in {"tok1", "tok2"}}
LogoutAnswers == {NetworkError, Answer(200, None, TRUE, None), Answer(401, None, FALSE, None)}

\* the functions of the provider that run createApiRequest: "api" stands for
\* api.get, api.post, api.put and api.delete, which hand its result on
Callers == {"checkAuthStatus", "updateProfile", "changePassword", "api"}

\* a page that was never logged in
NoClient ==
  [authToken |-> None, userData |-> FALSE, user |-> None, isAuthenticated |-> FALSE,
   pc |-> "idle", caller |-> None, calls |-> 0,
   bearer |-> None, sends |-> 0, refreshes |-> 0, refreshed |-> None,
   first |-> NoAnswer, refreshAnswer |-> NoAnswer, second |-> NoAnswer,
   outcome |-> None, error |-> None,
   logouts |-> 0, pendingLogouts |-> 0, logoutAnswer |-> NoAnswer]

\* logout() is called and not awaited: its fetch to /auth/logout is sent
StartLogout(c) == [c EXCEPT !.pendingLogouts = @ + 1, !.logouts = @ + 1]

\* a caller enters createApiRequest: the token is read from localStorage and
\* the request is sent.  checkAuthStatus runs once, when the provider mounts
\* with a token and user data in localStorage.
CreateApiRequest(caller) ==
  /\ client.pc = "idle" /\ client.calls < MaxCalls
  /\ UNCHANGED server
  /\ caller = "checkAuthStatus" =>
       (client.calls = 0 /\ client.authToken # None /\ client.userData)
  /\ client' = [client EXCEPT !.pc = "fetch", !.caller = caller, !.calls = @ + 1,
                              !.bearer = client.authToken, !.sends = 1, !.refreshes = 0,
                              !.refreshed = None, !.first = NoAnswer, !.refreshAnswer = NoAnswer,
                              !.second = NoAnswer,
                              !.outcome = None, !.error = None, !.logouts = 0]

\* createApiRequest after the first fetch settled
OnResponse(a) ==
  /\ client.pc = "fetch"
  /\ UNCHANGED server
  /\ client' =
       IF a.kind = "network"
       THEN [client EXCEPT !.pc = "ended", !.first = a, !.outcome = "threw", !.error = "network"]
       ELSE IF a.status = 401 /\ a.code = "TOKEN_EXPIRED"
       THEN [client EXCEPT !.pc = "refresh", !.first = a, !.refreshes = @ + 1]
       ELSE IF ~Ok(a)
       THEN [client EXCEPT !.pc = "ended", !.first = a, !.outcome = "threw", !.error = "message"]
       ELSE [client EXCEPT !.pc = "ended", !.first = a, !.outcome = "returned"]

\* createApiRequest that asks again for a token when the retry is answered
\* TOKEN_EXPIRED
OnRetryResponseRefreshesAgain(a) ==
  /\ client.pc = "retry"
  /\ UNCHANGED server
  /\ client' =
       IF a.kind = "network"
       THEN [client EXCEPT !.pc = "ended", !.second = a, !.outcome = "threw", !.error = "network"]
       ELSE IF a.status = 401 /\ a.code = "TOKEN_EXPIRED"
       THEN [client EXCEPT !.pc = "refresh", !.second = a, !.refreshes = @ + 1]
       ELSE [client EXCEPT !.pc = "ended", !.second = a, !.outcome = "returned"]

\* createApiRequest after the retry settled: its JSON body is returned
\* whatever the status
OnRetryResponse(a) ==
  /\ client.pc = "retry"
  /\ UNCHANGED server
  /\ client' =
       IF a.kind = "network"
       THEN [client EXCEPT !.pc = "ended", !.second = a, !.outcome = "threw", !.error = "network"]
       ELSE [client EXCEPT !.pc = "ended", !.second = a, !.outcome = "returned"]

\* handleTokenRefresh: the fetch to /auth/refresh settles; on an OK answer
\* with success the access token is put into localStorage and the function
\* returns true, on any other answer or a network error it returns false.
\* The `await handleTokenRefresh()` of createApiRequest resumes in a later
\* turn of the event loop.
HandleTokenRefresh(a) ==
  /\ client.pc = "refresh"
  /\ UNCHANGED server
  /\ client' =
       IF Ok(a) /\ a.success
       THEN [client EXCEPT !.authToken = a.accessToken, !.refreshed = a.accessToken,
                           !.refreshAnswer = a, !.pc = "refreshed"]
       ELSE [client EXCEPT !.refreshAnswer = a, !.pc = "refreshed"]

\* createApiRequest that sends the request again whether or not the refresh
\* worked
OnRefreshSettledAlwaysRetries ==
  /\ client.pc = "refreshed"
  /\ UNCHANGED server
  /\ client' = [client EXCEPT !.bearer = IF client.authToken = None THEN "null"
                                           ELSE client.authToken,
                                !.sends = @ + 1, !.pc = "retry"]

\* createApiRequest resumes with refreshSuccess: when true, the token is read
\* back from localStorage as it is now, `Bearer ${newToken}` becomes the
\* Authorization header ("Bearer null" when the item is gone) and the
\* request is sent again; when false, logout() is started and the call throws
OnRefreshSettled ==
  /\ client.pc = "refreshed"
  /\ UNCHANGED server
  /\ client' =
       IF Ok(client.refreshAnswer) /\ client.refreshAnswer.success
       THEN [client EXCEPT !.bearer = IF client.authToken = None THEN "null"
                                       ELSE client.authToken,
                           !.sends = @ + 1, !.pc = "retry"]
       ELSE [StartLogout(client) EXCEPT !.pc = "ended", !.outcome = "threw",
                                        !.error = "Session expired. Please login again."]

\* the code after `await createApiRequest(..)` in the caller: checkAuthStatus
\* and updateProfile store the user that came back, checkAuthStatus calls
\* logout() on any failure, changePassword and api.* touch no state
CallerResumes ==
  /\ client.pc = "ended"
  /\ UNCHANGED server
  /\ LET data == IF client.second # NoAnswer THEN client.second ELSE client.first
         succeeded == client.outcome = "returned" /\ data.success
         back == [client EXCEPT !.pc = "idle"]
     IN client' =
          IF client.caller \in {"changePassword", "api"}
          THEN back
          ELSE IF succeeded
          THEN [back EXCEPT !.user = "user", !.userData = TRUE,
                            !.isAuthenticated =
                               IF client.caller = "checkAuthStatus" THEN TRUE ELSE @]
          ELSE IF client.caller = "checkAuthStatus"
          THEN StartLogout(back)
          ELSE back

\* the fetch of a logout() settles, in whatever way, and its finally block
\* clears the session
LogoutSettles(a) ==
  /\ client.pendingLogouts > 0
  /\ UNCHANGED server
  /\ client' = [client EXCEPT !.pendingLogouts = @ - 1, !.logoutAnswer = a,
                              !.user = None, !.isAuthenticated = FALSE,
                              !.authToken = None, !.userData = FALSE]

\* login(credentials) is answered with success, at any time: the user, the
\* access token and the user data are stored
Login ==
  /\ UNCHANGED server
  /\ client' = [client EXCEPT !.user = "user", !.isAuthenticated = TRUE,
                              !.authToken = "tok0", !.userData = TRUE]

\* register(userData) is answered with success: the new user is logged in
\* with the access token of the answer
Register ==
  /\ UNCHANGED server
  /\ client' = [client EXCEPT !.user = "user", !.isAuthenticated = TRUE,
                              !.authToken = "tok0", !.userData = TRUE]

\* the user clicks "log out": logout() is called from the page
UserLogout ==
  /\ client.pendingLogouts < MaxCalls
  /\ UNCHANGED server
  /\ client' = [client EXCEPT !.pendingLogouts = @ + 1]

(***************************************************************************)
(* Specifications                                                          *)
(***************************************************************************)
Init ==
  /\ now = 0
  /\ users = SeedUsers
  /\ blogs = SeedBlogs
  /\ tags = {[id |-> "t1", tag_name |-> <<"a">>, usage_count |-> 1]}
  /\ blogTags = {[blog_id |-> "b1", tag_id |-> "t1"]}
  /\ comments = {SeedComment}
  /\ ratings = {[blog_id |-> "b1", user_id |-> "u2"]}
  /\ alloc = [blogs |-> 1, tags |-> 1, comments |-> 1]
  /\ served = 0
  /\ pc = "idle"
  /\ req = NoReq
  /\ res = NoRes
  /\ hist = NoHist
  /\ dbUp = TRUE
  /\ client = NoClient
  /\ inflight = <<>>
  /\ rival = NoRival
  /\ stray = {}

\* the blog and tag API, one request at a time
Next ==
  \/ ArriveApi
  \/ Authenticate
  \/ OptionalAuth
  \/ Authorize
  \/ CheckOwnership
  \/ RateLimit
  \/ ListBlogs
  \/ CreateBlog
  \/ UpdateBlog
  \/ RemoveBlog
  \/ CreateTag
  \/ UpdateTag
  \/ RemoveTag
  \/ Finish

Spec == Init /\ [][Next]_vars

\* the authentication middleware under every kind of credential, while the
\* clock advances and accounts are disabled or removed
NextAuth ==
  \/ ArriveAuth
  \/ Authenticate
  \/ OptionalAuth
  \/ Authorize
  \/ ListBlogs
  \/ UpdateTag
  \/ Finish
  \/ Tick
  \/ \E u \in UserIds : DeactivateUser(u)
  \/ \E u \in UserIds : DeleteUser(u)

SpecAuth == Init /\ [][NextAuth]_vars

(***************************************************************************)
(* The authorisation middleware on its own: authorize and checkOwnership   *)
(* are entered with every request context a caller of the exported         *)
(* functions can give them                                                 *)
(***************************************************************************)
\* the handler behind a unit route
Downstream ==
  /\ Current = "handler" /\ req.route \in UnitRoutes \cup {TwinRoute}
  /\ Take(Send(req, Json(200, None, "ok")))

UserDocs == {[id |-> u, role |-> SeedRole(u), isActive |-> TRUE] : u \in UserIds}

InitUnit ==
  /\ now = 0
  /\ users = SeedUsers
  /\ blogs = SeedBlogs
  /\ tags = {[id |-> "t1", tag_name |-> <<"a">>, usage_count |-> 1]}
  /\ blogTags = {[blog_id |-> "b1", tag_id |-> "t1"]}
  \* the comment is awaiting moderation, or an Admin has approved or rejected it
  /\ \E status \in {"pending", "approved", "rejected"} :
       comments = {[SeedComment EXCEPT !.status = status]}
  /\ ratings = {[blog_id |-> "b1", user_id |-> "u2"]}
  /\ alloc = [blogs |-> 1, tags |-> 1, comments |-> 1]
  /\ served = 0
  /\ dbUp = TRUE
  /\ client = NoClient
  /\ inflight = <<>>
  /\ rival = NoRival
  /\ stray = {}
  /\ pc = "run"
  /\ res = NoRes
  /\ hist = [NoHist EXCEPT !.pre = store, !.nexts = 1]
  /\ \/ \E route \in {PostBlog, PostTag, PutTag, DeleteTag, "authorize(Admin, Reader)"} :
          \E user \in UserDocs \cup {NoUser}, p \in Payloads(route) :
            req = [NoReq EXCEPT !.route = route, !.id = p[1], !.body = p[2],
                                !.user = user, !.stage = 2]
     \/ \E route \in OwnershipUnits :
          \E user \in UserDocs,
             id \in (CASE route = "checkOwnership(Blog)" -> {"b1", "b2", BadId}
                       [] route = "checkOwnership(Comment)" -> {"c1", "c2", BadId}
                       [] route = "checkOwnership(Tag)" -> {"t1", "t2", BadId}) :
            req = [NoReq EXCEPT !.route = route, !.id = id, !.user = user, !.stage = 2]

NextUnit ==
  \/ Authorize
  \/ CheckOwnership
  \/ RateLimit
  \/ CreateBlog
  \/ CreateTag
  \/ UpdateTag
  \/ RemoveTag
  \/ Downstream
  \/ Finish

SpecUnit == InitUnit /\ [][NextUnit]_vars

\* optionalAuth and authenticate on the same request: any Authorization header
\* and cookie, at any instant, over any state of the User collection and of
\* the connection
InitTwin ==
  /\ now \in 0..MaxTime
  /\ \E exists \in [UserIds -> BOOLEAN], active \in [UserIds -> BOOLEAN] :
       users = [u \in UserIds |-> [SeedUsers[u] EXCEPT !.exists = exists[u],
                                                       !.isActive = active[u]]]
  /\ blogs = SeedBlogs
  /\ tags = {[id |-> "t1", tag_name |-> <<"a">>, usage_count |-> 1]}
  /\ blogTags = {[blog_id |-> "b1", tag_id |-> "t1"]}
  /\ comments = {SeedComment}
  /\ ratings = {[blog_id |-> "b1", user_id |-> "u2"]}
  /\ alloc = [blogs |-> 1, tags |-> 1, comments |-> 1]
  /\ served = 0
  /\ dbUp \in BOOLEAN
  /\ client = NoClient
  /\ inflight = <<>>
  /\ rival = NoRival
  /\ stray = {}
  /\ pc = "run"
  /\ res = NoRes
  /\ hist = [NoHist EXCEPT !.pre = store]
  /\ \E authorization \in Authorizations, cookie \in Cookies :
       req = [NoReq EXCEPT !.route = TwinRoute, !.authorization = authorization,
                           !.cookie = cookie, !.stage = 1]

NextTwin ==
  \/ OptionalAuth
  \/ Authenticate
  \/ Downstream
  \/ Finish

SpecTwin == InitTwin /\ [][NextTwin]_vars

\* logins, logouts, refreshes and requests with minted tokens while the clock
\* advances
NextSession ==
  \/ ArriveMinted
  \/ ArriveRefresh
  \/ Authenticate
  \/ OptionalAuth
  \/ Authorize
  \/ ListBlogs
  \/ UpdateTag
  \/ RefreshAccessToken
  \/ Finish
  \/ Tick
  \/ \E u \in UserIds : LoginUser(u)
  \/ \E u \in UserIds : LogoutUser(u)

SpecSession == Init /\ [][NextSession]_vars

\* requests of callers with a fresh access token over a database connection
\* that comes and goes
ArriveFault ==
  /\ served' = served
  /\ \E route \in {GetBlogs, GetBlog, PutTag, PutBlog, DeleteBlog} :
       \E authorization \in {NoHeader} \cup {Bearer(AccessToken(u)) : u \in UserIds} :
         \E id \in (CASE route = GetBlogs -> {None}
                       [] route = GetBlog -> {b.slug : b \in SeedBlogs}
                       [] route = PutTag -> TagIds
                       [] OTHER -> BlogIds \cup {BadId}) :
           Arrive(route, authorization, NoToken, id, EmptyBody)

NextFault ==
  \/ ArriveFault
  \/ Authenticate
  \/ OptionalAuth
  \/ Authorize
  \/ CheckOwnership
  \/ ListBlogs
  \/ ShowBlog
  \/ UpdateBlog
  \/ RemoveBlog
  \/ UpdateTag
  \/ Finish
  \/ DbGoesDown
  \/ DbComesBack
  \/ StraySettles

SpecFault == Init /\ [][NextFault]_vars

\* every path of the four middleware: any Authorization header, ids that
\* resolve, do not resolve or are no ObjectId, while the clock advances,
\* accounts are disabled or removed and the connection comes and goes
ArrivePaths ==
  /\ served' = served
  /\ \E route \in {GetBlogs, PutTag, PutBlog} :
       \E authorization \in Authorizations :
         \E id \in (IF route = GetBlogs THEN {None}
                     ELSE IF route = PutTag THEN {"t1"} ELSE BlogIds \cup {BadId}) :
           Arrive(route, authorization, NoToken, id, EmptyBody)

NextPaths ==
  \/ ArrivePaths
  \/ Authenticate
  \/ OptionalAuth
  \/ Authorize
  \/ CheckOwnership
  \/ ListBlogs
  \/ UpdateBlog
  \/ UpdateTag
  \/ Finish
  \/ Tick
  \/ DbGoesDown
  \/ DbComesBack
  \/ \E u \in UserIds : DeactivateUser(u)
  \/ \E u \in UserIds : DeleteUser(u)

SpecPaths == Init /\ [][NextPaths]_vars

\* comments, replies and replies to replies are posted, moderated and
\* deleted.  The router has a second POST / (part_007 1362, ratings) behind
\* the one of the comments: every POST / is dispatched to the comment stack,
\* which always answers, so a body that carries a rating and no text is a
\* comment body that fails createCommentValidation.
ArriveComments ==
  /\ served < MaxRequests
  /\ served' = served + 1
  /\ \E authorization \in {NoHeader} \cup {Bearer(AccessToken(u)) : u \in UserIds} :
       \/ \E blog_id \in {"b1", "b2", BadId}, parent_id \in {Undefined, BadId, "c1", "c2", "c3"} :
            Arrive(PostComment, authorization, NoToken, None,
                   [EmptyBody EXCEPT !.blog_id = blog_id, !.parent_id = parent_id])
       \/ Arrive(PostComment, authorization, NoToken, None,
                 [EmptyBody EXCEPT !.wellFormed = FALSE, !.blog_id = "b1"])
       \/ \E id \in {"c1", "c2", "c3", BadId} :
            Arrive(DeleteComment, authorization, NoToken, id, EmptyBody)
       \/ \E id \in {"c1", "c2", BadId}, status \in {Undefined, "approved", "rejected", "pending"} :
            Arrive(PutCommentStatus, authorization, NoToken, id, [EmptyBody EXCEPT !.status = status])

NextComments ==
  \/ ArriveComments
  \/ Authenticate
  \/ Authorize
  \/ RateLimit
  \/ CreateComment
  \/ RemoveComment
  \/ UpdateCommentStatus
  \/ Finish

SpecComments == Init /\ [][NextComments]_vars

(***************************************************************************)
(* Two API requests at once: while the handler of the pipeline's request   *)
(* waits at an await, the handler of a second request runs from one of its *)
(* awaits to the next.  The second request enters its handler as its       *)
(* middleware leaves it: with the user authenticate attached, the role     *)
(* authorize asks for and, behind checkOwnership, the resource of its      *)
(* owner.  The connection to MongoDB may be lost at any await.             *)
(***************************************************************************)
\* the (id, body) pairs the two requests carry
RacePayloads(route) ==
  CASE route = PostBlog ->
         {<<None, [EmptyBody EXCEPT !.status = "published", !.hasTags = TRUE, !.tags = <<n>>,
                                    !.hasTitle = TRUE, !.title = <<"B", "a", " ", "b", "a">>]>>
          : n \in RawTagNames}
    [] route = PutBlog ->
         {<<"b1", [EmptyBody EXCEPT !.status = "published", !.hasTags = TRUE, !.tags = <<n>>]>>
          : n \in RawTagNames}
    [] route = DeleteBlog -> {<<"b1", EmptyBody>>}
    [] route = PostTag -> {<<None, [EmptyBody EXCEPT !.hasName = TRUE, !.tag_name = n]>>
                           : n \in RawTagNames}
    [] route = PutTag -> {<<i, [EmptyBody EXCEPT !.hasName = TRUE, !.tag_name = <<"b">>]>>
                          : i \in TagIds}
    [] route = DeleteTag -> {<<i, EmptyBody>> : i \in TagIds}

RivalArrives ==
  /\ rival = NoRival
  /\ served < MaxRequests
  /\ served' = served + 1
  /\ \E route \in {PostBlog, PutBlog, DeleteBlog, PostTag, PutTag, DeleteTag}, user \in UserDocs :
       \E p \in RacePayloads(route) :
         /\ IF route \in {PutBlog, DeleteBlog}
            THEN user.role = "Admin" \/ FindById("Blog", p[1]).doc.author_id = user.id
            ELSE user.role \in RequiredRoles(route)
         /\ rival' = [req |-> [NoReq EXCEPT
                                 !.route = route, !.id = p[1], !.body = p[2], !.user = user,
                                 !.resource = IF route \in {PutBlog, DeleteBlog}
                                                 /\ user.role # "Admin"
                                              THEN FindById("Blog", p[1]).doc ELSE NoResource,
                                 !.stage = Len(Chain(route))],
                       res |-> NoRes]
  /\ UNCHANGED <<now, dbUp, client, inflight, stray, db, pc, req, res, hist>>

\* the handler of the second request runs to its next await
RivalStep ==
  /\ rival # NoRival /\ rival.res = NoRes
  /\ \E e \in (CASE rival.req.route = PostBlog -> {CreateBlogStep(rival.req)}
              [] rival.req.route = PutBlog -> {UpdateBlogStep(rival.req)}
              [] rival.req.route = DeleteBlog -> RemoveBlogSteps(rival.req)
              [] rival.req.route = PostTag -> {CreateTagStep(rival.req)}
              [] rival.req.route = PutTag -> {UpdateTagStep(rival.req)}
              [] rival.req.route = DeleteTag -> {RemoveTagStep(rival.req)}) :
       /\ rival' = [req |-> e.req, res |-> e.res]
       /\ blogs' = e.store.blogs
       /\ tags' = e.store.tags
       /\ blogTags' = e.store.blogTags
       /\ comments' = e.store.comments
       /\ ratings' = e.store.ratings
       /\ alloc' = e.alloc
       /\ stray' = e.stray
  /\ UNCHANGED <<now, served, dbUp, client, inflight, users, pc, req, res, hist>>

\* the response of the second request has gone out
RivalLeaves ==
  /\ rival.res # NoRes
  /\ rival' = NoRival
  /\ UNCHANGED <<now, served, dbUp, client, inflight, stray, db, pc, req, res, hist>>

\* the requests of the pipeline that race with the second request
ArriveRace ==
  /\ served < MaxRequests
  /\ served' = served + 1
  /\ \E route \in {PostBlog, PutBlog, DeleteBlog, PostTag, PutTag, DeleteTag}, u \in {"u1", "u3"} :
       \E p \in RacePayloads(route) :
         Arrive(route, Bearer(AccessToken(u)), NoToken, p[1], p[2])

NextRace ==
  \/ ArriveRace
  \/ Authenticate
  \/ Authorize
  \/ CheckOwnership
  \/ RateLimit
  \/ CreateBlog
  \/ UpdateBlog
  \/ RemoveBlog
  \/ CreateTag
  \/ UpdateTag
  \/ RemoveTag
  \/ Finish
  \/ RivalArrives
  \/ RivalStep
  \/ RivalLeaves
  \/ DbGoesDown
  \/ StraySettles

SpecRace == Init /\ [][NextRace]_vars

\* a draft and a published blog, whose counters start anywhere
InitConc ==
  /\ now = 0
  /\ users = SeedUsers
  /\ \E v \in 0..1, l \in 0..1 :
       blogs = SeedBlogs \cup {[id |-> "b2", author_id |-> "u3", status |-> "published",
                                views |-> v, likes |-> l,
                                title |-> <<"B", "a", " ", "b", "a">>, slug |-> <<"b", "a", "-", "b", "a">>]}
  /\ tags = {[id |-> "t1", tag_name |-> <<"a">>, usage_count |-> 1]}
  /\ blogTags = {[blog_id |-> "b1", tag_id |-> "t1"]}
  /\ comments = {SeedComment}
  /\ ratings = {[blog_id |-> "b1", user_id |-> "u2"]}
  /\ alloc = [blogs |-> 2, tags |-> 1, comments |-> 1]
  /\ served = 0
  /\ pc = "idle"
  /\ req = NoReq
  /\ res = NoRes
  /\ hist = [NoHist EXCEPT !.pre = store]
  /\ dbUp = TRUE
  /\ client = NoClient
  /\ inflight = <<>>
  /\ rival = NoRival
  /\ stray = {}

NextConc ==
  \/ \E kind \in {"like", "view"} : Enter(kind)
  \/ \E i \in 1..MaxConc : LikeFind(i)
  \/ \E i \in 1..MaxConc : LikeInc(i)
  \/ \E i \in 1..MaxConc : ViewFind(i)
  \/ \E i \in 1..MaxConc : ViewRead(i)
  \/ \E i \in 1..MaxConc : ViewInc(i)

SpecConc == InitConc /\ [][NextConc]_vars

\* a draft, a published and an archived blog
InitList ==
  /\ now = 0
  /\ users = SeedUsers
  /\ blogs = SeedBlogs
             \cup {[id |-> "b2", author_id |-> "u3", status |-> "published", views |-> 0, likes |-> 0,
                    title |-> <<"B", "a", " ", "b", "a">>, slug |-> <<"b", "a", "-", "b", "a">>],
                   [id |-> "b3", author_id |-> "u1", status |-> "archived", views |-> 0, likes |-> 0,
                    title |-> <<"B", "b", " ", "b", "b">>, slug |-> <<"b", "b", "-", "b", "b">>]}
  /\ tags = {[id |-> "t1", tag_name |-> <<"a">>, usage_count |-> 1]}
  /\ blogTags = {[blog_id |-> "b1", tag_id |-> "t1"]}
  /\ comments = {SeedComment}
  /\ ratings = {[blog_id |-> "b1", user_id |-> "u2"]}
  /\ alloc = [blogs |-> 3, tags |-> 1, comments |-> 1]
  /\ served = 0
  /\ pc = "idle"
  /\ req = NoReq
  /\ res = NoRes
  /\ hist = NoHist
  /\ dbUp = TRUE
  /\ client = NoClient
  /\ inflight = <<>>
  /\ rival = NoRival
  /\ stray = {}

\* the public blog pages, asked for with every kind of Authorization header
\* and every status parameter
ArriveList ==
  /\ served < MaxRequests
  /\ served' = served + 1
  /\ \E authorization \in Authorizations :
       \/ \E status \in {Undefined, "draft", "published", "archived", "bogus"} :
            Arrive(GetBlogs, authorization, NoToken, None, [EmptyBody EXCEPT !.status = status])
       \/ \E slug \in {b.slug : b \in blogs} \cup {<<"b">>} :
            Arrive(GetBlog, authorization, NoToken, slug, EmptyBody)

NextList ==
  \/ ArriveList
  \/ OptionalAuth
  \/ ListBlogs
  \/ ShowBlog
  \/ Finish
  \/ Tick
  \/ \E u \in UserIds : DeactivateUser(u)

SpecList == InitList /\ [][NextList]_vars

(***************************************************************************)
(* The browser against an arbitrary server                                 *)
(***************************************************************************)
\* the seeded collections, no request in the pipeline
ServerAtRest ==
  /\ now = 0
  /\ users = SeedUsers
  /\ blogs = SeedBlogs
  /\ tags = {[id |-> "t1", tag_name |-> <<"a">>, usage_count |-> 1]}
  /\ blogTags = {[blog_id |-> "b1", tag_id |-> "t1"]}
  /\ comments = {SeedComment}
  /\ ratings = {[blog_id |-> "b1", user_id |-> "u2"]}
  /\ alloc = [blogs |-> 1, tags |-> 1, comments |-> 1]
  /\ served = 0
  /\ pc = "idle"
  /\ req = NoReq
  /\ res = NoRes
  /\ hist = NoHist
  /\ dbUp = TRUE
  /\ inflight = <<>>
  /\ rival = NoRival
  /\ stray = {}

\* the page loads with whatever an earlier visit left in localStorage
InitClient ==
  /\ ServerAtRest
  /\ \E token \in {None, "tok0"}, data \in BOOLEAN :
       client = [NoClient EXCEPT !.authToken = token, !.userData = data]

\* the page: calls of createApiRequest one after the other, while the user
\* logs in, registers and logs out at any time
NextClient ==
  \/ \E caller \in Callers : CreateApiRequest(caller)
  \/ \E a \in ApiAnswers : OnResponse(a)
  \/ \E a \in RefreshAnswers : HandleTokenRefresh(a)
  \/ OnRefreshSettled
  \/ \E a \in ApiAnswers : OnRetryResponse(a)
  \/ CallerResumes
  \/ \E a \in LogoutAnswers : LogoutSettles(a)
  \/ UserLogout
  \/ Login
  \/ Register

SpecClient == InitClient /\ [][NextClient]_vars

\* every fetch to /auth/logout settles at some time
SpecClientFair == SpecClient /\ WF_vars(\E a \in LogoutAnswers : LogoutSettles(a))

\* one session from page load to logout: the calls and the logouts overlap,
\* nobody logs in or registers, no call starts after a logout has completed
NextLogout ==
  \/ client.logoutAnswer = NoAnswer /\ \E caller \in Callers : CreateApiRequest(caller)
  \/ UserLogout
  \/ \E a \in ApiAnswers : OnResponse(a)
  \/ \E a \in RefreshAnswers : HandleTokenRefresh(a)
  \/ OnRefreshSettled
  \/ \E a \in ApiAnswers : OnRetryResponse(a)
  \/ CallerResumes
  \/ \E a \in LogoutAnswers : LogoutSettles(a)

SpecLogout == InitClient /\ [][NextLogout]_vars

(***************************************************************************)
(* The browser against this server: the first fetch of a createApiRequest  *)
(* call is handled by the middleware chain and its response is what the    *)
(* call reads; the refresh and the retry are answered in any way           *)
(***************************************************************************)
\* response.status and the JSON body of a response of this server
Wire(r) == Answer(r.status, r.code, r.status \in 200..299, None)

\* the fetch of api.get('/blogs') or api.put('/tags/:id', ..) reaches the
\* server: the Authorization header is there when localStorage held a token,
\* which may be any JWT; the cookie jar travels with the request
\* (credentials: 'include')
ArriveWire ==
  /\ client.pc = "fetch" /\ client.first = NoAnswer
  /\ served' = served
  /\ \E route \in {GetBlogs, PutTag} :
       \E authorization \in (IF client.bearer = None THEN {NoHeader}
                              ELSE {Bearer(t) : t \in Tokens}) :
         \E cookie \in (IF client.bearer = None THEN Cookies ELSE {NoToken}) :
           /\ Arrive(route, authorization, cookie, IF route = PutTag THEN "t1" ELSE None, EmptyBody)

\* the response reaches createApiRequest
Deliver ==
  /\ pc = "done"
  /\ client.first = NoAnswer
  /\ OnResponse(Wire(res))

\* the exchange is over
FinishWire ==
  /\ client.pc # "fetch"
  /\ Finish

\* a component calls api.get or api.put while the server is idle (the other
\* callers of createApiRequest address /auth/me, /auth/profile and
\* /auth/change-password), and the exchange runs
NextWire ==
  \/ pc = "idle" /\ CreateApiRequest("api")
  \/ ArriveWire
  \/ Authenticate
  \/ OptionalAuth
  \/ Authorize
  \/ ListBlogs
  \/ UpdateTag
  \/ Deliver
  \/ FinishWire
  \/ Tick
  \/ \E a \in RefreshAnswers : HandleTokenRefresh(a)
  \/ OnRefreshSettled
  \/ \E a \in ApiAnswers : OnRetryResponse(a)
  \/ CallerResumes
  \/ \E a \in LogoutAnswers : LogoutSettles(a)
  \/ Login

SpecWire == InitClient /\ [][NextWire]_vars

TypeOK ==
  /\ now \in 0..MaxTime
  /\ pc \in {"idle", "run", "done"}
  /\ res.status \in {0, 200, 201, 400, 401, 403, 404, 429, 500}

(***************************************************************************)
(* Properties                                                              *)
(***************************************************************************)
\* the k-th middleware of the chain has run for the current request
Acted(k) == pc # "idle" /\ (req.stage > k \/ (pc = "done" /\ req.stage >= k))

\* the request is on a route whose k-th middleware is m
Mounted(k, m) == pc # "idle" /\ Len(Chain(req.route)) >= k /\ Chain(req.route)[k] = m

\* a step of the request that is in flight (not of the clock or the accounts)
RequestStep == <<pc, req, res, hist>>' # <<pc, req, res, hist>>

\* the token the request presents
Presented == ExtractToken(req.authorization, req.cookie)

\* C1: under authenticate, a request with no Bearer Authorization header and
\* no accessToken cookie gets 401, no identity is attached and nothing
\* downstream is invoked.
C1_NoTokenIs401 ==
  (Mounted(1, "authenticate") /\ Acted(1)
     /\ req.authorization.scheme # "Bearer" /\ req.cookie = NoToken)
  => /\ pc = "done" /\ req.stage = 1
     /\ res.status = 401
     /\ req.user = NoUser
     /\ hist.nexts = 0 /\ ~hist.handlerRan

C1_Witness ==
  /\ Mounted(1, "authenticate") /\ pc = "done"
  /\ req.authorization = BasicHeader /\ req.cookie = NoToken
  /\ res.status = 401 /\ res.message = "Access denied. No token provided."

\* C2: optionalAuth never answers the request itself: whatever the token, it
\* sends no response and calls next once; with no token, an expired, invalid
\* or malformed token, or the token of a missing or deactivated user, no
\* identity is attached.
C2_OptionalAuthNeverFails ==
  [][(Current = "optionalAuth" /\ RequestStep) =>
       LET token == Presented
           \* what jwt.verify refuses when the middleware is entered, and what
           \* is refused once the user is loaded
           unverified == \/ token = NoToken
                         \/ token.secret # "JWT_SECRET"
                         \/ now >= token.exp
           unknown == \/ ~users[token.userId].exists
                      \/ ~users[token.userId].isActive
       IN /\ pc' = "run" /\ res' = NoRes /\ hist'.sent = 0
          /\ IF req.step = "start" /\ ~unverified
             THEN \* the lookup is awaited, and nothing else happens
                  /\ req' = [req EXCEPT !.step = "User.findById"] /\ hist' = hist
             ELSE /\ req'.stage = req.stage + 1 /\ hist'.nexts = hist.nexts + 1
                  /\ (req.step = "start" \/ unknown) => req'.user = NoUser]_vars

\* optionalAuth has let through, with no identity, a well signed, unexpired
\* token of an account that is deactivated
C2_Witness ==
  /\ Mounted(1, "optionalAuth") /\ Acted(1)
  /\ Presented # NoToken /\ Presented.secret = "JWT_SECRET" /\ now < Presented.exp
  /\ users[Presented.userId].exists /\ ~users[Presented.userId].isActive
  /\ req.user = NoUser /\ hist.nexts >= 1

\* C3: under authenticate, an access token signed with the access secret
\* whose expiration instant has passed is answered 401 with code
\* TOKEN_EXPIRED, never with the generic invalid-token answer, and nothing
\* downstream is invoked.
C3_ExpiredIsTokenExpired ==
  [][(Current = "authenticate" /\ req.step = "start" /\ RequestStep
        /\ Presented # NoToken /\ Presented.secret = "JWT_SECRET" /\ now >= Presented.exp)
     => /\ res'.status = 401 /\ res'.code = "TOKEN_EXPIRED"
        /\ res'.message # "Invalid token"
        /\ pc' = "done" /\ hist'.nexts = hist.nexts
        /\ req'.user = NoUser]_vars

C3_Witness ==
  /\ Mounted(1, "authenticate") /\ pc = "done" /\ req.stage = 1
  /\ Presented.secret = "JWT_SECRET" /\ now >= Presented.exp
  /\ res.status = 401 /\ res.code = "TOKEN_EXPIRED"

\* C4: authenticate calls next only for a token that verifies against the
\* access secret and whose user exists and is active when loaded, and it
\* attaches that user; a verified token of a missing user is answered 401
\* invalid token, of a deactivated user 401 account deactivated, and neither
\* reaches the handler.
C4_OnlyActiveUsersPass ==
  [][(Current = "authenticate" /\ RequestStep) =>
       LET token == Presented
           verified == token # NoToken /\ token.secret = "JWT_SECRET" /\ now < token.exp
       IN IF req.step = "start"
          THEN \* jwt.verify: only a token that verifies gets as far as the lookup
               /\ req'.stage = req.stage
               /\ IF verified THEN req' = [req EXCEPT !.step = "User.findById"] /\ pc' = "run"
                  ELSE pc' = "done" /\ res'.status = 401
          ELSE \* the user is loaded
               /\ token # NoToken /\ token.secret = "JWT_SECRET"
               /\ req'.stage > req.stage =>
                    /\ users[token.userId].exists /\ users[token.userId].isActive
                    /\ req'.user.id = token.userId
               /\ ~users[token.userId].exists =>
                    /\ pc' = "done" /\ res'.status = 401
                    /\ res'.message = "Invalid token. User not found."
                    /\ hist'.nexts = hist.nexts
               /\ (users[token.userId].exists /\ ~users[token.userId].isActive) =>
                    /\ pc' = "done" /\ res'.status = 401
                    /\ res'.message = "Account is deactivated."
                    /\ hist'.nexts = hist.nexts]_vars

\* a handler behind authenticate has run for an authenticated caller
C4_Witness ==
  /\ Mounted(1, "authenticate") /\ pc = "done"
  /\ hist.handlerRan /\ req.user # NoUser /\ req.user.id = Presented.userId

\* the request addresses a blog that existed when it arrived
TargetBlog == {b \in hist.pre.blogs : b.id = req.id}
OnBlogRoute == pc # "idle" /\ req.route \in {PutBlog, DeleteBlog}

\* the body passes updateBlogValidation
ValidUpdate(body) ==
  /\ body.wellFormed /\ body.status \in {Undefined, "draft", "published", "archived"}
  /\ body.hasTitle => Len(Trim(body.title)) >= 5

\* C5: a PUT or DELETE /api/blogs/:id on a blog of author U1, authenticated
\* as a non-Admin user other than U1, is answered 403; the route handler does
\* not run and the blog, its tags, comments and ratings are unchanged.
C5_NonOwnerIs403 ==
  (OnBlogRoute /\ Acted(2) /\ req.user # NoUser /\ req.user.role # "Admin"
     /\ \E b \in TargetBlog : b.author_id # req.user.id)
  => /\ pc = "done" /\ res.status = 403
     /\ ~hist.handlerRan
     /\ store = hist.pre

C5_Witness ==
  /\ OnBlogRoute /\ req.route = DeleteBlog /\ pc = "done"
  /\ req.user.id = "u2" /\ req.user.role = "Reader"
  /\ \E b \in TargetBlog : b.author_id = "u1"
  /\ res.status = 403

\* C6: a PUT or DELETE /api/blogs/:id on an existing blog, authenticated as
\* an active Admin, passes checkOwnership and ends with a success response,
\* the blog updated or deleted, never with an error response.
C6_AdminSucceeds ==
  (OnBlogRoute /\ pc = "done" /\ req.user # NoUser /\ req.user.role = "Admin"
     /\ TargetBlog # {} /\ (req.route = PutBlog => ValidUpdate(req.body)))
  => /\ hist.handlerRan
     /\ res.status = 200
     /\ req.route = DeleteBlog => ~\E b \in blogs : b.id = req.id

\* C7: a PUT or DELETE /api/blogs/:id on an existing blog, authenticated as
\* its non-Admin author, passes checkOwnership and the handler succeeds;
\* after the DELETE the blog and every BlogTag, Comment and Rating that
\* refers to it are gone.
C7_OwnerSucceeds ==
  (OnBlogRoute /\ pc = "done" /\ req.user # NoUser /\ req.user.role # "Admin"
     /\ (\E b \in TargetBlog : b.author_id = req.user.id)
     /\ (req.route = PutBlog => ValidUpdate(req.body)))
  => /\ hist.handlerRan
     /\ res.status = 200
     /\ req.route = DeleteBlog =>
          /\ ~\E b \in blogs : b.id = req.id
          /\ ~\E bt \in blogTags : bt.blog_id = req.id
          /\ ~\E c \in comments : c.blog_id = req.id
          /\ ~\E r \in ratings : r.blog_id = req.id

\* C8: for every authenticated caller, whatever the role, checkOwnership
\* answers 404 when the id parameter resolves to no resource, and the
\* downstream handler is not invoked.
C8_MissingIs404 ==
  (OnBlogRoute /\ Acted(2) /\ req.user # NoUser
     /\ req.id # BadId /\ TargetBlog = {})
  => /\ pc = "done" /\ res.status = 404
     /\ ~hist.handlerRan

\* C9: a non-Admin caller passes checkOwnership only when the loaded resource
\* has an author_id or user_id equal to the caller's id; with any other
\* loaded resource, one that has neither field included, the answer is 403.
C9_PassOnlyAsOwner ==
  (pc # "idle" /\ req.route \in OwnershipUnits /\ Acted(2) /\ req.user.role # "Admin")
  => \A d \in Docs(ResourceModel(req.route)) :
       d.id = req.id =>
         IF d.author_id = req.user.id \/ d.user_id = req.user.id
         THEN TRUE
         ELSE pc = "done" /\ res.status = 403 /\ ~hist.handlerRan

\* C10: authorize(roles) calls next only when the attached identity's role is
\* one of the required roles; otherwise it answers 403, or 401 when no
\* identity is attached, and the handler does not run.  POST /api/blogs and
\* the tag create, update and delete handlers never run for a Reader.
C10_AuthorizeChecksRole ==
  (Mounted(2, "authorize") /\ Acted(2))
  => /\ req.stage > 2 => (req.user # NoUser /\ req.user.role \in RequiredRoles(req.route))
     /\ req.user = NoUser => (pc = "done" /\ res.status = 401 /\ ~hist.handlerRan)
     /\ (req.user # NoUser /\ req.user.role \notin RequiredRoles(req.route))
          => (pc = "done" /\ res.status = 403 /\ ~hist.handlerRan)
     /\ (hist.handlerRan /\ req.route \in {PostBlog, PostTag, PutTag, DeleteTag})
          => req.user.role = "Admin"

\* a Reader was turned away from POST /api/blogs
C10_Witness ==
  /\ pc = "done" /\ req.route = PostBlog
  /\ req.user # NoUser /\ req.user.role = "Reader"
  /\ res.status = 403 /\ ~hist.handlerRan

\* the createApiRequest call has returned or thrown
CallOver == client.pc \in {"ended", "idle"} /\ client.outcome # None

\* C11: one call of createApiRequest issues at most one refresh request and
\* sends the original request at most twice, whatever the server answers;
\* once the retry is answered the call is over, and a TOKEN_EXPIRED answer to
\* the retry starts no second refresh.
C11_AtMostOneRetry ==
  /\ client.refreshes <= 1
  /\ client.sends <= 2
  /\ client.second # NoAnswer =>
       /\ CallOver
       /\ client.refreshes = 1 /\ client.sends = 2
  /\ client.pc \in {"fetch", "refresh", "refreshed", "retry"} => client.outcome = None

\* the retry was answered TOKEN_EXPIRED and the call ended after one refresh
C11_Witness ==
  /\ client.second.status = 401 /\ client.second.code = "TOKEN_EXPIRED"
  /\ client.pc = "ended" /\ client.outcome = "returned"
  /\ client.refreshes = 1 /\ client.sends = 2

\* C12: the original request is sent a second time only after a refresh that
\* succeeded, it is sent once the call has read that result, only once, and
\* the retry's Authorization header carries the access token that refresh
\* returned.
C12_RetryCarriesNewToken ==
  /\ client.sends = 2 =>
       /\ Ok(client.refreshAnswer) /\ client.refreshAnswer.success
       /\ client.refreshes = 1
       /\ client.bearer = client.refreshAnswer.accessToken
       /\ client.bearer = client.refreshed
  /\ (Ok(client.refreshAnswer) /\ client.refreshAnswer.success /\ client.pc # "refreshed")
       => client.sends = 2
  /\ client.sends <= 2

\* the refresh attempt of the call failed and createApiRequest has resumed
\* with its result
RefreshFailed ==
  /\ client.refreshAnswer # NoAnswer /\ client.pc # "refreshed"
  /\ ~(Ok(client.refreshAnswer) /\ client.refreshAnswer.success)

\* no session is left in the page
Cleared ==
  /\ client.user = None /\ ~client.isAuthenticated
  /\ client.authToken = None /\ ~client.userData

C14_Other401ForcesLogout ==
  (client.pc = "idle" /\ client.outcome # None
     /\ client.first.status = 401 /\ client.first.code # "TOKEN_EXPIRED")
  => /\ client.refreshes = 0
     /\ client.logouts >= 1

\* C15: POST /api/auth/refresh given a valid refresh-token cookie (signed with
\* the refresh secret, not expired, the one persisted for its user) answers
\* 200 with a fresh access token of that user; given an expired or invalid
\* cookie, or none, it answers 401 and issues no token.  The refresh token is
\* not rotated.
C15_RefreshFlow ==
  [][(Current = "handler" /\ req.route = PostRefresh /\ RequestStep) =>
       LET cookie == req.refreshCookie
           verifies == cookie.secret = "JWT_REFRESH_SECRET" /\ now < cookie.exp
       IN /\ (verifies /\ users[cookie.userId].refreshToken = cookie) =>
               /\ res'.status = 200
               /\ res'.accessToken.secret = "JWT_SECRET"
               /\ res'.accessToken.userId = cookie.userId
               /\ now < res'.accessToken.exp
          /\ ~verifies =>
               /\ res'.status = 401
               /\ res'.accessToken = NoToken
          /\ users' = users]_vars

\* a refresh was answered with a token, and the cookie it was given expires
\* at the next tick
C15_Witness ==
  /\ pc = "done" /\ req.route = PostRefresh
  /\ res.status = 200 /\ res.accessToken = GenerateTokens("u1", now).accessToken
  /\ req.refreshCookie.exp = now + 1

\* C16: the access token generateTokens mints for a user at the instant t0 is
\* accepted by authenticate at every instant before t0 + JWT_EXPIRE, with
\* that user attached, and answered TOKEN_EXPIRED at every instant from then
\* on.
C16_MintedTokenVerifiesUntilExpiry ==
  [][(Current = "authenticate" /\ RequestStep) =>
       \A u \in UserIds, t0 \in 0..MaxTime :
         Presented = GenerateTokens(u, t0).accessToken =>
           IF req.step = "User.findById"
           THEN \* it had verified: the user it names is loaded and attached
                pc' = "run" /\ req'.stage = req.stage + 1 /\ req'.user.id = u /\ res' = NoRes
           ELSE IF now < t0 + JWT_EXPIRE
           THEN pc' = "run" /\ req'.step = "User.findById" /\ res' = NoRes
           ELSE /\ pc' = "done" /\ res'.status = 401 /\ res'.code = "TOKEN_EXPIRED"
                /\ req'.user = NoUser]_vars

\* a minted access token was refused at the very instant of its expiration
C16_Witness ==
  /\ Mounted(1, "authenticate") /\ pc = "done" /\ req.stage = 1
  /\ Presented = GenerateTokens("u1", 0).accessToken
  /\ now = JWT_EXPIRE
  /\ res.code = "TOKEN_EXPIRED"

\* C17: the refresh token generateTokens mints is signed with another secret
\* than the access token, and authenticate answers it 401 invalid token,
\* optionalAuth ignores it; neither attaches an identity.
C17_RefreshTokenIsNoAccessToken ==
  [][(Current \in {"authenticate", "optionalAuth"} /\ RequestStep) =>
       \A u \in UserIds, t0 \in 0..MaxTime :
         Presented = GenerateTokens(u, t0).refreshToken =>
           /\ Presented.secret # GenerateTokens(u, t0).accessToken.secret
           /\ req'.user = NoUser
           /\ Current = "authenticate" =>
                /\ pc' = "done" /\ res'.status = 401
                /\ res'.code = None /\ res'.message = "Invalid token"
                /\ hist'.nexts = hist.nexts]_vars

\* an unexpired refresh token of a logged-in user was refused by authenticate
C17_Witness ==
  /\ Mounted(1, "authenticate") /\ pc = "done" /\ req.stage = 1
  /\ Presented = GenerateTokens("u3", 0).refreshToken
  /\ users["u3"].refreshToken = Presented /\ now < Presented.exp
  /\ res.status = 401 /\ res.message = "Invalid token"

\* C18: the identity authenticate or optionalAuth attaches to the request has
\* neither the password_hash nor the refreshToken of the User document.
C18_IdentityHasNoSecrets ==
  /\ DOMAIN req.user \cap {"password_hash", "refreshToken"} = {}
  /\ (pc # "idle" /\ req.user # NoUser) =>
       req.user = [id |-> req.user.id, role |-> users[req.user.id].role,
                   isActive |-> users[req.user.id].isActive]

\* optionalAuth attached a user whose document holds a refresh token
C18_Witness ==
  /\ Mounted(1, "optionalAuth") /\ Acted(1)
  /\ req.user # NoUser
  /\ users[req.user.id].refreshToken # NoToken
  /\ users[req.user.id].password_hash # None

\* C19: when the database lookup inside authenticate or checkOwnership fails,
\* the caller gets a 500, not an authentication error, and the handler is
\* not reached.
C19_LookupFailureIs500 ==
  [][(RequestStep /\ ~dbUp
        /\ \/ Current = "authenticate" /\ req.step = "User.findById"
           \/ Current = "checkOwnership" /\ req.user.role # "Admin")
     => /\ pc' = "done"
        /\ res'.status = 500
        /\ hist'.nexts = hist.nexts]_vars

\* the requests of a kind that were answered 200 for the blog b
Completed(kind, b) ==
  {i \in DOMAIN inflight : /\ inflight[i].kind = kind
                           /\ inflight[i].id = (IF kind = "view" THEN b.slug ELSE b.id)
                           /\ inflight[i].pc = "done" /\ inflight[i].status = 200}
StartOf(b) == CHOOSE p \in hist.pre.blogs : p.id = b.id

\* C20: however like requests and views interleave, a blog's likes counter is
\* its starting value plus the number of like requests answered 200 for it,
\* and the views counter of a published blog its starting value plus the
\* number of views answered 200; views of a blog that is not published count
\* nothing.
C20_NoLostIncrement ==
  \A b \in blogs :
    /\ b.likes = StartOf(b).likes + Cardinality(Completed("like", b))
    /\ b.views = StartOf(b).views
                + (IF b.status = "published" THEN Cardinality(Completed("view", b)) ELSE 0)

\* two likes of the same blog that both read it before either incremented
C20_Witness ==
  /\ Len(inflight) = 2
  /\ \A i \in 1..2 : /\ inflight[i].kind = "like" /\ inflight[i].id = "b2"
                     /\ inflight[i].pc = "done" /\ inflight[i].status = 200
                     /\ inflight[i].blog.likes = 1
  /\ \E b \in blogs : b.id = "b2" /\ b.likes = 3

\* the listing or the single-blog page has answered 200
Listed == pc = "done" /\ req.route \in {GetBlogs, GetBlog} /\ res.status = 200

\* C21: on GET /api/blogs and GET /api/blogs/:slug a token that does not
\* verify (expired, malformed, wrongly signed) or no token leaves the caller
\* anonymous; every blog returned to a caller who is not an authenticated
\* Admin is published, whatever status parameter was sent; an Admin who sends
\* a status parameter gets the blogs of that status.
C21_OnlyAdminSeesUnpublished ==
  [][/\ (Current = "optionalAuth" /\ req.route \in {GetBlogs, GetBlog} /\ RequestStep
         /\ req.step = "start"
         /\ (Presented = NoToken \/ JwtVerify(Presented, "JWT_SECRET", now) # "ok"))
        => req'.user = NoUser
     /\ (Current = "handler" /\ req.route \in {GetBlogs, GetBlog} /\ RequestStep
         /\ ~IsAdmin(req.user))
        => \A b \in res'.data : b.status = "published"
     /\ (Current = "handler" /\ req.route = GetBlogs /\ RequestStep
         /\ IsAdmin(req.user) /\ res'.status = 200 /\ req.body.status # Undefined)
        => res'.data = {b \in blogs : b.status = req.body.status}]_vars

\* a caller whose token has expired asks for the drafts and is answered with
\* the published blog only, while a draft is in the collection
C21_Witness ==
  /\ Listed /\ req.route = GetBlogs /\ req.body.status = "draft"
  /\ JwtVerify(Presented, "JWT_SECRET", now) = "TokenExpiredError"
  /\ Presented.userId = "u3" /\ req.user = NoUser
  /\ res.data # {} /\ \E b \in blogs : b.status = "draft"

\* C22: on one request and one state of the database, authenticate calls next
\* exactly when optionalAuth has attached an identity, and the user it
\* attaches is the one optionalAuth attached; when authenticate rejects,
\* optionalAuth has attached none.
C22_OptionalAuthAgreesWithAuthenticate ==
  [][(Current = "authenticate" /\ req.route = TwinRoute /\ RequestStep)
     => LET accepted == req'.stage = req.stage + 1
            rejected == pc' = "done"
        IN /\ accepted <=> (req.step = "User.findById" /\ req.user # NoUser)
           /\ accepted => req'.user = req.user
           /\ rejected => (res'.status = 401 /\ req.user = NoUser)
           /\ req.step = "User.findById" => (accepted \/ rejected)]_vars

\* both have accepted a request whose header and cookie carry tokens of
\* different users
C22_Witness ==
  /\ pc = "run" /\ req.route = TwinRoute /\ req.stage = 3
  /\ req.authorization.scheme = "Bearer" /\ req.cookie # NoToken
  /\ req.cookie.userId # req.authorization.token.userId
  /\ req.user # NoUser /\ req.user.id = req.authorization.token.userId

\* C23: under authenticate, a token that is malformed or not signed with the
\* access secret is answered 401 "Invalid token" with no TOKEN_EXPIRED code,
\* whether or not its exp has passed, and the createApiRequest call that
\* reads this response throws without having started a refresh.
C23_InvalidTokenIsGeneric401 ==
  (pc = "done" /\ Mounted(1, "authenticate")
     /\ Presented # NoToken /\ Presented.secret # "JWT_SECRET")
  => /\ res.status = 401 /\ res.code # "TOKEN_EXPIRED" /\ res.message = "Invalid token"
     /\ req.stage = 1 /\ req.user = NoUser
     /\ client.first # NoAnswer =>
          /\ client.first = Wire(res)
          /\ client.refreshes = 0 /\ client.sends = 1
          /\ client.outcome = "threw" /\ client.error = "message"

\* the call has read the answer to a token signed with the refresh secret
\* whose exp has passed
C23_Witness ==
  /\ pc = "done" /\ Mounted(1, "authenticate")
  /\ Presented.secret = "JWT_REFRESH_SECRET" /\ now >= Presented.exp
  /\ client.first = Wire(res) /\ client.pc = "ended" /\ client.refreshes = 0

\* C24: whenever the handler of PUT or DELETE /api/blogs/:id has run, for the
\* owner or for an Admin, req.resource is the resource the id parameter
\* names.
C24_HandlerFindsResource ==
  (OnBlogRoute /\ hist.handlerRan)
  => /\ req.resource # NoResource
     /\ req.resource.id = req.id

Middleware == {"authenticate", "authorize", "optionalAuth", "checkOwnership"}

\* C25: every step of authenticate, authorize, optionalAuth and
\* checkOwnership either sends one response and ends the chain, or calls
\* next once and sends nothing; it never does both, and a middleware that is
\* due can always take its step.
C25_RespondOrNextOnce ==
  /\ [](Current \in Middleware =>
         ENABLED (Authenticate \/ Authorize \/ OptionalAuth \/ CheckOwnership))
  /\ [][(Current \in Middleware /\ RequestStep)
        => \/ /\ hist'.sent = hist.sent + 1 /\ hist'.nexts = hist.nexts
              /\ pc' = "done" /\ res'.status >= 400 /\ req'.stage = req.stage
           \/ /\ hist'.nexts = hist.nexts + 1 /\ hist'.sent = hist.sent
              /\ pc' = "run" /\ res' = NoRes /\ req'.stage = req.stage + 1
           \* or it has reached its await, the only one it has, and has done
           \* neither yet
           \/ /\ Current \in {"authenticate", "optionalAuth"} /\ req.step = "start"
              /\ req' = [req EXCEPT !.step = "User.findById"]
              /\ UNCHANGED <<pc, res, hist>>]_vars

\* checkOwnership has answered 500 on its error path, after authenticate
\* called next once
C25_Witness ==
  /\ pc = "done" /\ Mounted(2, "checkOwnership") /\ req.stage = 2
  /\ res.status = 500 /\ hist.sent = 1 /\ hist.nexts = 1 /\ ~hist.handlerRan

\* C26: once a logout has completed and no request or logout of the client is
\* in flight any more, with no login or register in between, localStorage
\* holds neither authToken nor userData.
C26_LogoutLeavesNoSession ==
  (client.logoutAnswer # NoAnswer /\ client.pendingLogouts = 0 /\ client.pc = "idle")
  => (client.authToken = None /\ ~client.userData)

\* the last HTTP response the createApiRequest call has received
LastAnswer == IF client.second # NoAnswer THEN client.second ELSE client.first

\* C27: createApiRequest returns data to its caller only when the last HTTP
\* response it received was 2xx; a call whose last response, first or retry,
\* is not 2xx throws.
C27_ReturnsOnlyOn2xx ==
  /\ client.outcome = "returned" => Ok(LastAnswer)
  /\ (client.outcome # None /\ LastAnswer.kind = "json" /\ ~Ok(LastAnswer))
     => client.outcome = "threw"

\* the BlogTag relations that reference the tag
Relations(t) == {bt \in blogTags : bt.tag_id = t.id}

\* C28: after any sequence of blog creations, blog updates, blog deletions
\* and tag operations, every tag's usage_count is the number of BlogTag
\* relations that reference the tag.
C28_UsageCountCountsRelations ==
  pc \in {"idle", "done"} => \A t \in tags : t.usage_count = Cardinality(Relations(t))

\* C29: when POST /api/blogs is answered with an error status, the blogs,
\* tags (usage counts included) and blog-tag relations are what they were
\* when the request arrived.
C29_FailedCreateLeavesNoTrace ==
  (pc = "done" /\ req.route = PostBlog /\ res.status >= 400)
  => /\ blogs = hist.pre.blogs
     /\ tags = hist.pre.tags
     /\ blogTags = hist.pre.blogTags

\* C30: after any sequence of comment creations and comment deletions, the
\* parent_id of every remaining comment refers to a comment that exists.
C30_NoOrphanReplies ==
  \A c \in comments : c.parent_id # None => \E p \in comments : p.id = c.parent_id
====
